---- MODULE Spec2Model ----
(***************************************************************************)
(* Model of the voice-recording-summary audio pipeline:                    *)
(*   - splitWavIntoChunks      (src/src/app/utils/audioProcessing.ts)      *)
(*   - POST /api/transcribe    (src/unnamed/part_000, lines 554-696)       *)
(*   - createSummary           (src/src/app/utils/summarize.ts)            *)
(* Buffers are sequences of byte values; texts are sequences of            *)
(* one-character strings, so that trim and join are computed, not assumed. *)
(* User-facing messages are named in English after the Korean originals.   *)
(* Left out: log() output and the isDev-only debug payload of error        *)
(* responses, which no control flow depends on.                            *)
(*                                                                         *)
(* Spec    : one request to the transcribe route, createSummary included.  *)
(*           The audio preparation's result is an input of the request.    *)
(* SpecWav : one call of splitWavIntoChunks on a small WAV buffer.         *)
(***************************************************************************)
EXTENDS Integers, Sequences, FiniteSets, TLC

VARIABLES wav, req, sum, box, prep

vars == <<wav, req, sum, box, prep>>

(***************************************************************************)
(* Bounds of the model (not program constants).                            *)
(***************************************************************************)
\* longest PCM payload, in bytes, of a WAV buffer given to the chunker
MaxPcmLen == 12
\* chunk-size limits range from WAV_HEADER_SIZE - LimitBelow ...
LimitBelow == 3
\* ... to WAV_HEADER_SIZE + MaxPcmLen + LimitAbove
LimitAbove == 1
\* most chunks an oversized WAV of the model splits into
MaxChunks == 3
\* most stretches (boxes, well-formed or not) a buffer given to the box parser
\* is made of
MaxBoxes == 3
\* most bytes missing at the end of such a buffer
MaxCut == 4

(***************************************************************************)
(* WAV chunker: audioProcessing.ts                                         *)
(***************************************************************************)
WAV_HEADER_SIZE == 44

Min(a, b) == IF a <= b THEN a ELSE b

\* An unsigned 16/32-bit header field can hold v (Buffer.writeUInt16LE /
\* writeUInt32LE throw a RangeError otherwise).  Every number of the model
\* is below 2^31, so only the lower end of the 32-bit range can be missed.
FitsU16(v) == v >= 0 /\ v <= 65535
FitsU32(v) == v >= 0

\* A WAV buffer: the 44-byte header's fields and the PCM bytes after it.
WavBuffer(riff, fmtSize, fmt, ch, rate, byteRate, align, bits, dataSize, pcm) ==
    [ riffSize      |-> riff,
      fmtSize       |-> fmtSize,
      audioFormat   |-> fmt,
      numChannels   |-> ch,
      sampleRate    |-> rate,
      byteRate      |-> byteRate,
      blockAlign    |-> align,
      bitsPerSample |-> bits,
      dataSize      |-> dataSize,
      pcm           |-> pcm ]

\* buffer.length
BufLen(w) == WAV_HEADER_SIZE + Len(w.pcm)

\* line 32: numChannels * (bitsPerSample / 8); bitsPerSample is a multiple
\* of 8 in every buffer of the model, so the quotient is exact.
BlockAlignOf(numChannels, bitsPerSample) == numChannels * (bitsPerSample \div 8)

\* Mutant of MaxPcmPerChunk: no room is left for the chunk's header.
MaxPcmPerChunk_IgnoresHeader(maxChunkSize, blockAlign) ==
    (maxChunkSize \div blockAlign) * blockAlign

\* Mutant of MaxPcmPerChunk: the stride is not floored to whole sample-frames.
MaxPcmPerChunk_Unaligned(maxChunkSize, blockAlign) == maxChunkSize - WAV_HEADER_SIZE

\* line 35: Math.floor((maxChunkSize - WAV_HEADER_SIZE) / blockAlign) * blockAlign
MaxPcmPerChunk(maxChunkSize, blockAlign) ==
    ((maxChunkSize - WAV_HEADER_SIZE) \div blockAlign) * blockAlign

\* lines 44-58: the header writes of one loop iteration succeed (no RangeError)
HeaderWritable(chunkPcmSize, sampleRate, blockAlign) ==
    /\ FitsU32(WAV_HEADER_SIZE + chunkPcmSize - 8)
    /\ FitsU32(sampleRate * blockAlign)
    /\ FitsU16(blockAlign)
    /\ FitsU32(chunkPcmSize)

\* lines 38-62 on lengths: the PCM sizes of the chunks the loop pushes from
\* `offset` on.  status "returned": the loop ended; "threw": a header write
\* raised a RangeError; "diverged": chunkPcmSize is 0, so offset never
\* advances and the loop condition stays true for ever.
RECURSIVE ChunkSizesFrom(_, _, _, _, _)
ChunkSizesFrom(pcmLen, offset, maxPcmPerChunk, sampleRate, blockAlign) ==
    IF ~(offset < pcmLen)
    THEN [status |-> "returned", sizes |-> <<>>]
    ELSE LET chunkPcmSize == Min(maxPcmPerChunk, pcmLen - offset) IN
         IF ~HeaderWritable(chunkPcmSize, sampleRate, blockAlign)
         THEN [status |-> "threw", sizes |-> <<>>]
         ELSE IF chunkPcmSize = 0
         THEN [status |-> "diverged", sizes |-> <<>>]
         ELSE LET rest == ChunkSizesFrom(pcmLen, offset + chunkPcmSize,
                                         maxPcmPerChunk, sampleRate, blockAlign)
              IN [status |-> rest.status,
                  sizes  |-> IF rest.status = "returned"
                             THEN <<chunkPcmSize>> \o rest.sizes ELSE <<>>]

\* lines 25-41, 61 on lengths: how a buffer of bufLen bytes is cut.
\* status "whole": the early return of line 26.
SplitPlan(bufLen, numChannels, sampleRate, bitsPerSample, maxChunkSize) ==
    IF bufLen <= maxChunkSize
    THEN [status |-> "whole", sizes |-> <<bufLen - WAV_HEADER_SIZE>>]
    ELSE LET blockAlign == BlockAlignOf(numChannels, bitsPerSample)
         IN ChunkSizesFrom(bufLen - WAV_HEADER_SIZE, 0,
                           MaxPcmPerChunk(maxChunkSize, blockAlign),
                           sampleRate, blockAlign)

\* Mutant of MakeChunk: the two size fields are copied from the input header.
MakeChunk_KeepsInputSizes(w, offset, size) ==
    LET blockAlign == BlockAlignOf(w.numChannels, w.bitsPerSample) IN
    WavBuffer(w.riffSize, 16, 1, w.numChannels, w.sampleRate,
              w.sampleRate * blockAlign, blockAlign, w.bitsPerSample, w.dataSize,
              SubSeq(w.pcm, offset + 1, offset + size))

\* Mutant of MakeChunk: the slice ends one byte early, so the last byte of
\* every chunk is lost.
MakeChunk_SliceOffByOne(w, offset, size) ==
    LET blockAlign == BlockAlignOf(w.numChannels, w.bitsPerSample) IN
    WavBuffer(WAV_HEADER_SIZE + size - 8, 16, 1, w.numChannels, w.sampleRate,
              w.sampleRate * blockAlign, blockAlign, w.bitsPerSample, size,
              SubSeq(w.pcm, offset + 1, offset + size - 1))

\* lines 44-60: the chunk built from PCM bytes [offset, offset + size)
MakeChunk(w, offset, size) ==
    LET blockAlign == BlockAlignOf(w.numChannels, w.bitsPerSample) IN
    WavBuffer(WAV_HEADER_SIZE + size - 8, 16, 1, w.numChannels, w.sampleRate,
              w.sampleRate * blockAlign, blockAlign, w.bitsPerSample, size,
              SubSeq(w.pcm, offset + 1, offset + size))

RECURSIVE SumSeq(_)
SumSeq(s) == IF s = <<>> THEN 0 ELSE Head(s) + SumSeq(Tail(s))

\* splitWavIntoChunks(wavBuffer, maxChunkSize): [status, chunks]
splitWavIntoChunks(wavBuffer, maxChunkSize) ==
    LET plan == SplitPlan(BufLen(wavBuffer), wavBuffer.numChannels,
                          wavBuffer.sampleRate, wavBuffer.bitsPerSample,
                          maxChunkSize)
    IN IF plan.status = "whole"
       THEN [status |-> "returned", split |-> FALSE, chunks |-> <<wavBuffer>>]
       ELSE [status |-> plan.status, split |-> TRUE,
             chunks |-> [k \in 1..Len(plan.sizes) |->
                           MakeChunk(wavBuffer,
                                     SumSeq(SubSeq(plan.sizes, 1, k - 1)),
                                     plan.sizes[k])]]

(***************************************************************************)
(* Inputs of the chunker specification.                                    *)
(***************************************************************************)
\* PCM payloads: byte i carries the value i, so that a lost, duplicated or
\* moved byte changes the sequence.
PcmOf(n) == [i \in 1..n |-> i % 256]

ChannelCounts == {1, 2}
BitDepths     == {8, 16}

\* WAV buffers with a consistent 44-byte header and a PCM payload of any
\* length up to MaxPcmLen (whole sample-frames or not).
WavInputs ==
    { WavBuffer(36 + n, 16, 1, ch, rate, rate * BlockAlignOf(ch, bits),
                BlockAlignOf(ch, bits), bits, n, PcmOf(n)) :
        ch \in ChannelCounts, bits \in BitDepths, rate \in {8000},
        n \in 0..MaxPcmLen }

ChunkLimits == (WAV_HEADER_SIZE - LimitBelow)..(WAV_HEADER_SIZE + MaxPcmLen + LimitAbove)

(***************************************************************************)
(* The transcribe route: POST of src/unnamed/part_000, lines 601-696       *)
(***************************************************************************)
MAX_SIZE      == 25 * 1024 * 1024
WHISPER_LIMIT == 20 * 1024 * 1024

\* Texts are sequences of one-character strings; a character outside ASCII
\* is written as its code point ("U+3000").
\* What String.prototype.trim removes: the WhiteSpace and LineTerminator
\* characters of ECMAScript.
IsSpace(c) ==
    c \in {"\t", "\n", "U+000B", "\f", "\r", " ", "U+00A0", "U+1680",
           "U+2000", "U+2001", "U+2002", "U+2003", "U+2004", "U+2005", "U+2006",
           "U+2007", "U+2008", "U+2009", "U+200A", "U+2028", "U+2029", "U+202F",
           "U+205F", "U+3000", "U+FEFF"}

RECURSIVE TrimStart(_)
TrimStart(t) == IF t # <<>> /\ IsSpace(Head(t)) THEN TrimStart(Tail(t)) ELSE t

RECURSIVE TrimEnd(_)
TrimEnd(t) ==
    IF t # <<>> /\ IsSpace(t[Len(t)]) THEN TrimEnd(SubSeq(t, 1, Len(t) - 1)) ELSE t

\* String.prototype.trim
Trim(t) == TrimEnd(TrimStart(t))

\* Array.prototype.join(sep) on a list of texts
RECURSIVE JoinTexts(_, _)
JoinTexts(list, sep) ==
    IF list = <<>> THEN <<>>
    ELSE IF Len(list) = 1 THEN list[1]
    ELSE list[1] \o sep \o JoinTexts(Tail(list), sep)

\* A promise of one transcribeBuffer call, as Promise.allSettled reports it.
Pending         == [status |-> "pending",   value |-> <<>>, api |-> FALSE, code |-> 0]
Fulfilled(text) == [status |-> "fulfilled", value |-> text, api |-> FALSE, code |-> 0]
\* rejected with an OpenAI.APIError of HTTP status `code` ...
RejectedApi(code) == [status |-> "rejected", value |-> <<>>, api |-> TRUE, code |-> code]
\* ... or with any other error (no status)
RejectedOther   == [status |-> "rejected", value |-> <<>>, api |-> FALSE, code |-> 0]

NoPartialFailure == [present |-> FALSE, failed |-> <<>>, total |-> 0]

\* line 654: `일부 구간(${failedChunks.join(", ")}/${chunks.length})의 변환에
\* 실패했습니다.`  The note is kept as the two values it is formatted from.
PartialFailureNote(failedChunks, total) ==
    [present |-> TRUE, failed |-> failedChunks, total |-> total]

\* Mutant of CollectSettled: failed chunks are recorded by their 0-based index.
RECURSIVE CollectSettled_ZeroBased(_, _, _, _)
CollectSettled_ZeroBased(settled, i, successResults, failedChunks) ==
    IF i > Len(settled)
    THEN [successResults |-> successResults, failedChunks |-> failedChunks]
    ELSE IF settled[i].status = "fulfilled"
    THEN LET text == Trim(settled[i].value) IN
         CollectSettled_ZeroBased(settled, i + 1,
                        IF Len(text) > 0 THEN Append(successResults, text)
                                         ELSE successResults,
                        failedChunks)
    ELSE CollectSettled_ZeroBased(settled, i + 1, successResults,
                                  Append(failedChunks, i - 1))

\* lines 637-646: the loop over settled[0..], from position i (1-based here)
RECURSIVE CollectSettled(_, _, _, _)
CollectSettled(settled, i, successResults, failedChunks) ==
    IF i > Len(settled)
    THEN [successResults |-> successResults, failedChunks |-> failedChunks]
    ELSE IF settled[i].status = "fulfilled"
    THEN LET text == Trim(settled[i].value) IN
         CollectSettled(settled, i + 1,
                        IF Len(text) > 0 THEN Append(successResults, text)
                                         ELSE successResults,
                        failedChunks)
    ELSE CollectSettled(settled, i + 1, successResults, Append(failedChunks, i))

\* Mutant of MergeSettled: the note is attached whether or not a chunk failed.
MergeSettled_AlwaysNotes(settled) ==
    LET c == CollectSettled(settled, 1, <<>>, <<>>) IN
    IF Len(c.successResults) = 0
    THEN [allFailed |-> TRUE, transcript |-> <<>>, partialFailure |-> NoPartialFailure]
    ELSE [allFailed      |-> FALSE,
          transcript     |-> JoinTexts(c.successResults, <<" ">>),
          partialFailure |-> PartialFailureNote(c.failedChunks, Len(settled))]

\* lines 637-655: the merge of the settled chunk calls.
\* allFailed: the 502 return of lines 648-650.
MergeSettled(settled) ==
    LET c == CollectSettled(settled, 1, <<>>, <<>>) IN
    IF Len(c.successResults) = 0
    THEN [allFailed |-> TRUE, transcript |-> <<>>, partialFailure |-> NoPartialFailure]
    ELSE [allFailed      |-> FALSE,
          transcript     |-> JoinTexts(c.successResults, <<" ">>),
          partialFailure |-> IF Len(c.failedChunks) > 0
                             THEN PartialFailureNote(c.failedChunks, Len(settled))
                             ELSE NoPartialFailure]

(***************************************************************************)
(* createSummary: src/src/app/utils/summarize.ts                           *)
(***************************************************************************)
GPT_MODELS == <<"gpt-5.2", "gpt-4o", "gpt-4o-mini">>

\* Errors: an OpenAI.APIError carries an HTTP status; any other Error only
\* a message.
ApiError(status) == [api |-> TRUE,  status |-> status, message |-> "APIError"]
PlainError(msg)  == [api |-> FALSE, status |-> 0,      message |-> msg]
NoError          == [api |-> FALSE, status |-> 0,      message |-> ""]

\* line 45: "요약 생성에 실패했습니다."
EmptyContentError == PlainError("SummaryGenerationFailed")
\* line 68: "모든 GPT 모델을 사용할 수 없습니다. 관리자에게 문의하세요."
AllModelsExhausted == PlainError("AllGptModelsUnavailable")
\* an error that is no APIError (e.g. thrown by the runtime)
OtherError == PlainError("OtherError")

\* Response contents of the Summarization Service used in the model.
SixFieldText    == "{briefSummary:b,participants:p,keyPoints:k,agreements:a,legallySignificant:l,cautions:c}"
WrongShapeText  == "{foo:1}"
UnparsableText  == "plain words, no JSON"
EmptyText       == ""

NoValue == [none |-> TRUE]

\* line 49: JSON.parse(summaryText) on the contents above; ok = FALSE is a
\* SyntaxError.
JsonParse(text) ==
    CASE text = SixFieldText ->
           [ok |-> TRUE,
            value |-> [briefSummary |-> "b", participants |-> "p", keyPoints |-> "k",
                       agreements |-> "a", legallySignificant |-> "l", cautions |-> "c"]]
      [] text = WrongShapeText -> [ok |-> TRUE, value |-> [foo |-> "1"]]
      [] OTHER -> [ok |-> FALSE, value |-> NoValue]

\* lines 51-58: the Summary synthesized when JSON.parse throws
DegradedSummary(summaryText) ==
    [briefSummary       |-> summaryText,
     participants       |-> "AutoAnalysisUnavailable",
     keyPoints          |-> summaryText,
     agreements         |-> "NothingConfirmed",
     legallySignificant |-> "NothingConfirmed",
     cautions           |-> "ResponseFormatErrorCheckTextManually"]

\* Mutant of ShouldFallback: every API error moves on to the next model.
ShouldFallback_AnyApiError(err) == err.api

\* line 61: the failures after which the next model is tried
ShouldFallback(err) == err.api /\ (err.status = 404 \/ err.status = 400)

\* What one call of openai.chat.completions.create can come back with.
Content(text) == [kind |-> "content", text |-> text, error |-> NoError]
Failure(err)  == [kind |-> "error",   text |-> "",   error |-> err]
PendingCall   == [kind |-> "pending", text |-> "",   error |-> NoError]

\* the chunker, when no call of it is under way
WavIdle == [pc |-> "idle"]

SumIdle == [pc |-> "idle", model |-> 0, calls |-> <<>>,
            summary |-> NoValue, error |-> NoError]

\* Mutant of EnterLoop: the loop stops one model short of the list's end.
EnterLoop_SkipsLastModel(s, k) ==
    IF k < Len(GPT_MODELS)
    THEN [s EXCEPT !.pc = "awaiting", !.model = k,
                   !.calls = Append(@, [model |-> GPT_MODELS[k], outcome |-> PendingCall])]
    ELSE [s EXCEPT !.pc = "threw", !.error = AllModelsExhausted]

\* lines 31-41: the loop reaches model k and issues its call, or, with no
\* model left, throws at line 68.
EnterLoop(s, k) ==
    IF k <= Len(GPT_MODELS)
    THEN [s EXCEPT !.pc = "awaiting", !.model = k,
                   !.calls = Append(@, [model |-> GPT_MODELS[k], outcome |-> PendingCall])]
    ELSE [s EXCEPT !.pc = "threw", !.error = AllModelsExhausted]

\* line 31: createSummary is entered
StartSummary == EnterLoop(SumIdle, 1)

\* Mutant of HandleOutcome: a model that returned content is followed by a
\* call to the next model when there is one.
HandleOutcome_CallsOnAfterContent(s, o) ==
    LET logged == [s EXCEPT !.calls[Len(s.calls)].outcome = o]
        thrown == IF o.kind = "error" THEN o.error ELSE EmptyContentError
    IN IF o.kind = "content" /\ o.text # EmptyText
       THEN IF s.model < Len(GPT_MODELS)
            THEN EnterLoop(logged, s.model + 1)
            ELSE [logged EXCEPT !.pc = "returned",
                                !.summary = DegradedSummary(o.text)]
       ELSE IF ShouldFallback(thrown)
       THEN EnterLoop(logged, s.model + 1)
       ELSE [logged EXCEPT !.pc = "threw", !.error = thrown]

\* lines 43-67: the call for model s.model has come back with outcome o
HandleOutcome(s, o) ==
    LET logged == [s EXCEPT !.calls[Len(s.calls)].outcome = o]
        thrown == IF o.kind = "error" THEN o.error ELSE EmptyContentError
    IN IF o.kind = "content" /\ o.text # EmptyText
       THEN LET parsed == JsonParse(o.text) IN
            [logged EXCEPT !.pc = "returned",
                           !.summary = IF parsed.ok THEN parsed.value
                                       ELSE DegradedSummary(o.text)]
       ELSE IF ShouldFallback(thrown)
       THEN EnterLoop(logged, s.model + 1)
       ELSE [logged EXCEPT !.pc = "threw", !.error = thrown]

SummaryStatuses == {400, 404, 401, 429, 500}

SummaryOutcomes ==
    { Content(t) : t \in {SixFieldText, WrongShapeText, UnparsableText, EmptyText} }
    \cup { Failure(ApiError(st)) : st \in SummaryStatuses }
    \cup { Failure(OtherError) }

(***************************************************************************)
(* extract3gpAmr.ts: the top-level boxes of a 3GP/MP4 buffer               *)
(*                                                                         *)
(* A buffer is a sequence of bytes; byte i of the program (0-based) is     *)
(* element i + 1 of the sequence.  Text read out of a buffer is the        *)
(* sequence of its character codes.  Every 32-bit field of the model's     *)
(* buffers has a zero first byte, so all numbers stay below 2^31.          *)
(***************************************************************************)
Max(a, b) == IF a > b THEN a ELSE b

\* Buffer.readUInt32BE(offset)
readUInt32BE(buffer, offset) ==
    buffer[offset + 1] * 16777216 + buffer[offset + 2] * 65536
        + buffer[offset + 3] * 256 + buffer[offset + 4]

\* Buffer.subarray(start, end): both ends are clamped to the buffer
subarray(buffer, start, end) ==
    LET s == Min(Max(start, 0), Len(buffer))
        e == Min(Max(end, 0), Len(buffer))
    IN IF e <= s THEN <<>> ELSE SubSeq(buffer, s + 1, e)

\* Buffer.toString("ascii", start, end): the clamped range, each byte with
\* its highest bit cleared
toAscii(buffer, start, end) ==
    LET bytes == subarray(buffer, start, end)
    IN [i \in 1..Len(bytes) |-> bytes[i] % 128]

\* character codes of the texts the program compares with (a box that is
\* neither of them is tagged "free": 102, 114, 101, 101)
TypeMdat == <<109, 100, 97, 116>>
TypeFtyp == <<102, 116, 121, 112>>
TypeMoov == <<109, 111, 111, 118>>
Brand3gp == <<51, 103, 112>>

\* line 26: AMR_HEADER, the text "#!AMR\n"
AMR_HEADER == <<35, 33, 65, 77, 82, 10>>

\* what parseTopLevelBoxes raises (lines 59-61 and 72-74); the offset of the
\* box is part of the message
UnsupportedSize(offset) == [name |-> "UnsupportedSize", offset |-> offset]
MalformedBox(offset) == [name |-> "MalformedBox", offset |-> offset]
BoxNotFound == [name |-> "BoxNotFound", offset |-> 0]
NoBoxError == [name |-> "", offset |-> 0]

\* Mutant of ReadBoxSize: a box with size field 0 is its header only.
ReadBoxSize_ZeroSizeIsHeaderOnly(buffer, offset) ==
    LET sizeField == readUInt32BE(buffer, offset) IN
    IF sizeField = 0
    THEN [kind |-> "sized", headerSize |-> 8, totalBoxSize |-> 8]
    ELSE IF sizeField = 1
    THEN IF offset + 16 > Len(buffer)
         THEN [kind |-> "truncated", headerSize |-> 0, totalBoxSize |-> 0]
         ELSE LET hiWord == readUInt32BE(buffer, offset + 8)
                  loWord == readUInt32BE(buffer, offset + 12)
              IN IF hiWord # 0
                 THEN [kind |-> "tooLarge", headerSize |-> 0, totalBoxSize |-> 0]
                 ELSE [kind |-> "sized", headerSize |-> 16, totalBoxSize |-> loWord]
    ELSE [kind |-> "sized", headerSize |-> 8, totalBoxSize |-> sizeField]

\* Mutant of ReadBoxSize: the high word of an extended size is dropped.
ReadBoxSize_DropsHighWord(buffer, offset) ==
    LET sizeField == readUInt32BE(buffer, offset) IN
    IF sizeField = 0
    THEN [kind |-> "sized", headerSize |-> 8, totalBoxSize |-> Len(buffer) - offset]
    ELSE IF sizeField = 1
    THEN IF offset + 16 > Len(buffer)
         THEN [kind |-> "truncated", headerSize |-> 0, totalBoxSize |-> 0]
         ELSE [kind |-> "sized", headerSize |-> 16,
               totalBoxSize |-> readUInt32BE(buffer, offset + 12)]
    ELSE [kind |-> "sized", headerSize |-> 8, totalBoxSize |-> sizeField]

\* lines 41-69: the header size and total size of the box at offset
ReadBoxSize(buffer, offset) ==
    LET sizeField == readUInt32BE(buffer, offset) IN
    IF sizeField = 0
    THEN [kind |-> "sized", headerSize |-> 8, totalBoxSize |-> Len(buffer) - offset]
    ELSE IF sizeField = 1
    THEN IF offset + 16 > Len(buffer)
         THEN [kind |-> "truncated", headerSize |-> 0, totalBoxSize |-> 0]
         ELSE LET hiWord == readUInt32BE(buffer, offset + 8)
                  loWord == readUInt32BE(buffer, offset + 12)
              IN IF hiWord # 0
                 THEN [kind |-> "tooLarge", headerSize |-> 0, totalBoxSize |-> 0]
                 ELSE [kind |-> "sized", headerSize |-> 16, totalBoxSize |-> loWord]
    ELSE [kind |-> "sized", headerSize |-> 8, totalBoxSize |-> sizeField]

\* Mutant of IsMalformedSize: only an empty total size is rejected.
IsMalformedSize_OnlyZero(headerSize, totalBoxSize) == totalBoxSize = 0

\* line 71: the box is smaller than its own header
IsMalformedSize(headerSize, totalBoxSize) == totalBoxSize < headerSize

\* Mutant of MakeBox: the header is counted into the payload.
MakeBox_PayloadIsTotal(type, start, headerSize, totalBoxSize) ==
    [type |-> type, start |-> start, headerSize |-> headerSize,
     payloadSize |-> totalBoxSize]

\* lines 77-82: the descriptor pushed for a box
MakeBox(type, start, headerSize, totalBoxSize) ==
    [type |-> type, start |-> start, headerSize |-> headerSize,
     payloadSize |-> totalBoxSize - headerSize]

BoxesReturned(boxes) == [status |-> "returned", error |-> NoBoxError, boxes |-> boxes]
BoxesThrew(err) == [status |-> "threw", error |-> err, boxes |-> <<>>]

\* Mutant of ParseFrom: a truncated extended-size header is an error.
RECURSIVE ParseFrom_ThrowsOnTruncated(_, _, _)
ParseFrom_ThrowsOnTruncated(buffer, offset, boxes) ==
    IF offset + 8 > Len(buffer) THEN BoxesReturned(boxes)
    ELSE LET type == toAscii(buffer, offset + 4, offset + 8)
             size == ReadBoxSize(buffer, offset)
         IN IF size.kind = "truncated" THEN BoxesThrew(UnsupportedSize(offset))
            ELSE IF size.kind = "tooLarge" THEN BoxesThrew(UnsupportedSize(offset))
            ELSE IF IsMalformedSize(size.headerSize, size.totalBoxSize)
            THEN BoxesThrew(MalformedBox(offset))
            ELSE ParseFrom_ThrowsOnTruncated(buffer, offset + size.totalBoxSize,
                     Append(boxes, MakeBox(type, offset, size.headerSize,
                                           size.totalBoxSize)))

\* lines 39-87: the loop of parseTopLevelBoxes from offset on, with the boxes
\* pushed so far
RECURSIVE ParseFrom(_, _, _)
ParseFrom(buffer, offset, boxes) ==
    IF offset + 8 > Len(buffer) THEN BoxesReturned(boxes)
    ELSE LET type == toAscii(buffer, offset + 4, offset + 8)
             size == ReadBoxSize(buffer, offset)
         IN IF size.kind = "truncated" THEN BoxesReturned(boxes)
            ELSE IF size.kind = "tooLarge" THEN BoxesThrew(UnsupportedSize(offset))
            ELSE IF IsMalformedSize(size.headerSize, size.totalBoxSize)
            THEN BoxesThrew(MalformedBox(offset))
            ELSE ParseFrom(buffer, offset + size.totalBoxSize,
                     Append(boxes, MakeBox(type, offset, size.headerSize,
                                           size.totalBoxSize)))

\* Mutant of ScanOnce: the size check of line 71 is left out.
ScanOnce_NoSizeCheck(buffer, offset, boxes) ==
    IF offset + 8 > Len(buffer)
    THEN [status |-> "returned", error |-> NoBoxError, offset |-> offset, boxes |-> boxes]
    ELSE LET type == toAscii(buffer, offset + 4, offset + 8)
             size == ReadBoxSize(buffer, offset)
         IN IF size.kind = "truncated"
            THEN [status |-> "returned", error |-> NoBoxError,
                  offset |-> offset, boxes |-> boxes]
            ELSE IF size.kind = "tooLarge"
            THEN [status |-> "threw", error |-> UnsupportedSize(offset),
                  offset |-> offset, boxes |-> <<>>]
            ELSE [status |-> "scanning", error |-> NoBoxError,
                  offset |-> offset + size.totalBoxSize,
                  boxes |-> Append(boxes, MakeBox(type, offset, size.headerSize,
                                                  size.totalBoxSize))]

\* lines 39-85: the loop test and one iteration of the loop, from the scan
\* offset and the boxes pushed so far.  status "scanning": the iteration
\* ran to line 84; "returned": the loop was left (line 39 or 53) and line 87
\* returns; "threw": line 59 or 72.
ScanOnce(buffer, offset, boxes) ==
    IF offset + 8 > Len(buffer)
    THEN [status |-> "returned", error |-> NoBoxError, offset |-> offset, boxes |-> boxes]
    ELSE LET type == toAscii(buffer, offset + 4, offset + 8)
             size == ReadBoxSize(buffer, offset)
         IN IF size.kind = "truncated"
            THEN [status |-> "returned", error |-> NoBoxError,
                  offset |-> offset, boxes |-> boxes]
            ELSE IF size.kind = "tooLarge"
            THEN [status |-> "threw", error |-> UnsupportedSize(offset),
                  offset |-> offset, boxes |-> <<>>]
            ELSE IF IsMalformedSize(size.headerSize, size.totalBoxSize)
            THEN [status |-> "threw", error |-> MalformedBox(offset),
                  offset |-> offset, boxes |-> <<>>]
            ELSE [status |-> "scanning", error |-> NoBoxError,
                  offset |-> offset + size.totalBoxSize,
                  boxes |-> Append(boxes, MakeBox(type, offset, size.headerSize,
                                                  size.totalBoxSize))]

\* lines 36-37: the state of the scan before the loop
ScanStart == [status |-> "scanning", error |-> NoBoxError, offset |-> 0, boxes |-> <<>>]

\* lines 35-88
parseTopLevelBoxes(buffer) == ParseFrom(buffer, 0, <<>>)

\* Mutant of FindMdat: a moov box, which can hold an mdat box inside, is
\* taken as well.
FindMdat_AlsoMoov(boxes) ==
    IF \E i \in 1..Len(boxes) : boxes[i].type \in {TypeMdat, TypeMoov}
    THEN CHOOSE i \in 1..Len(boxes) :
            /\ boxes[i].type \in {TypeMdat, TypeMoov}
            /\ \A j \in 1..(i - 1) : boxes[j].type \notin {TypeMdat, TypeMoov}
    ELSE 0

\* line 99: boxes.find((b) => b.type === 'mdat'), as an index (0: none)
FindMdat(boxes) ==
    IF \E i \in 1..Len(boxes) : boxes[i].type = TypeMdat
    THEN CHOOSE i \in 1..Len(boxes) :
            /\ boxes[i].type = TypeMdat
            /\ \A j \in 1..(i - 1) : boxes[j].type # TypeMdat
    ELSE 0

AmrReturned(data) == [status |-> "returned", error |-> NoBoxError, data |-> data]
AmrThrew(err) == [status |-> "threw", error |-> err, data |-> <<>>]

\* Mutant of extract3gpAmrData: the whole mdat box, header included, is
\* taken as the payload.
extract3gpAmrData_KeepsBoxHeader(buffer) ==
    LET parsed == parseTopLevelBoxes(buffer) IN
    IF parsed.status = "threw" THEN AmrThrew(parsed.error)
    ELSE LET m == FindMdat(parsed.boxes) IN
         IF m = 0 THEN AmrThrew(BoxNotFound)
         ELSE LET mdatBox == parsed.boxes[m]
              IN AmrReturned(AMR_HEADER \o
                     subarray(buffer, mdatBox.start,
                              mdatBox.start + mdatBox.headerSize + mdatBox.payloadSize))

\* lines 96-108
extract3gpAmrData(buffer) ==
    LET parsed == parseTopLevelBoxes(buffer) IN
    IF parsed.status = "threw" THEN AmrThrew(parsed.error)
    ELSE LET m == FindMdat(parsed.boxes) IN
         IF m = 0 THEN AmrThrew(BoxNotFound)
         ELSE LET mdatBox == parsed.boxes[m]
                  payloadStart == mdatBox.start + mdatBox.headerSize
              IN AmrReturned(AMR_HEADER \o
                     subarray(buffer, payloadStart, payloadStart + mdatBox.payloadSize))

\* --- the buffers given to the box parser -----------------------------------
\* The four bytes of a big-endian 32-bit field.
U32BE(n) == <<n \div 16777216, (n \div 65536) % 256, (n \div 256) % 256, n % 256>>

\* One stretch of a buffer, laid out as a box (lines 4-9 of the file's
\* header comment): size field, type, for size field 1 the two words of the
\* extended size, then the payload bytes that are really there.
BoxBytes(sizeField, type, payload) ==
    [sizeField |-> sizeField, type |-> type, extended |-> FALSE,
     hiWord |-> 0, loWord |-> 0, payload |-> payload]
ExtBoxBytes(type, hiWord, loWord, payload) ==
    [sizeField |-> 1, type |-> type, extended |-> TRUE,
     hiWord |-> hiWord, loWord |-> loWord, payload |-> payload]

Encode(seg) ==
    U32BE(seg.sizeField) \o seg.type
        \o (IF seg.extended THEN U32BE(seg.hiWord) \o U32BE(seg.loWord) ELSE <<>>)
        \o seg.payload

Ftyp3gp == BoxBytes(12, TypeFtyp, <<51, 103, 112, 52>>)
FtypIsom == BoxBytes(12, TypeFtyp, <<105, 115, 111, 109>>)
\* boxes whose declared size is the size of the stretch
MdatSmall == BoxBytes(10, TypeMdat, <<1, 2>>)
MdatExtended == ExtBoxBytes(TypeMdat, 0, 18, <<6, 7>>)
FreeEmpty == BoxBytes(8, <<102, 114, 101, 101>>, <<>>)
\* a container box with a nested mdat box as its payload
MoovWithMdat == BoxBytes(16, TypeMoov, Encode(BoxBytes(8, TypeMdat, <<>>)))
\* size field 0: the box runs to the end of the buffer
MdatToEnd == BoxBytes(0, TypeMdat, <<3, 4, 5>>)
\* declared size 20, only 10 bytes there
MdatOverrun == BoxBytes(20, TypeMdat, <<8, 9>>)
\* total size below the header size
Undersized == BoxBytes(4, <<102, 114, 101, 101>>, <<>>)
ExtUndersized == ExtBoxBytes(<<102, 114, 101, 101>>, 0, 8, <<>>)
\* extended size with a non-zero high word
ExtHuge == ExtBoxBytes(TypeMdat, 1, 16, <<>>)

Segments ==
    { MdatSmall, MdatExtended, FreeEmpty, MoovWithMdat, MdatToEnd, MdatOverrun,
      Undersized, ExtUndersized, ExtHuge, Ftyp3gp }

\* the layouts of at most n stretches taken from segs
RECURSIVE LayoutsOver(_, _)
LayoutsOver(segs, n) ==
    IF n = 0 THEN { <<>> }
    ELSE LET shorter == LayoutsOver(segs, n - 1) IN
         shorter \cup { Append(l, s) : l \in shorter, s \in segs }

RECURSIVE Flatten(_)
Flatten(layout) ==
    IF layout = <<>> THEN <<>>
    ELSE Flatten(SubSeq(layout, 1, Len(layout) - 1)) \o Encode(layout[Len(layout)])

\* the buffer of a layout with its last cut bytes missing
BufferOf(layout, cut) ==
    LET all == Flatten(layout) IN SubSeq(all, 1, Max(Len(all) - cut, 0))


BoxStart(layout, cut) ==
    [pc |-> "input", layout |-> layout, cut |-> cut,
     buffer |-> BufferOf(layout, cut), parsed |-> BoxesReturned(<<>>),
     extracted |-> AmrReturned(<<>>),
     scan |-> ScanStart]

BoxInputs ==
    { BoxStart(layout, cut) :
        layout \in LayoutsOver(Segments, MaxBoxes), cut \in 0..MaxCut }

BoxIdle == [BoxStart(<<>>, 0) EXCEPT !.pc = "idle"]

(***************************************************************************)
(* audioProcessing.ts: prepareAudioForWhisper                              *)
(*                                                                         *)
(* File names are sequences of characters.  The AMR codec is outside the   *)
(* program: what it does with the one call a preparation can make is an    *)
(* input of the model.                                                     *)
(***************************************************************************)
StartsWith(s, prefix) ==
    Len(s) >= Len(prefix) /\ SubSeq(s, 1, Len(prefix)) = prefix

EndsWith(s, suffix) ==
    Len(s) >= Len(suffix)
        /\ SubSeq(s, Len(s) - Len(suffix) + 1, Len(s)) = suffix

UpperLetters == <<"A", "B", "C", "D", "E", "F", "G", "H", "I", "J", "K", "L", "M",
                  "N", "O", "P", "Q", "R", "S", "T", "U", "V", "W", "X", "Y", "Z">>
LowerLetters == <<"a", "b", "c", "d", "e", "f", "g", "h", "i", "j", "k", "l", "m",
                  "n", "o", "p", "q", "r", "s", "t", "u", "v", "w", "x", "y", "z">>

\* String.toLowerCase
toLowerCase(s) ==
    [i \in 1..Len(s) |->
       IF \E k \in 1..Len(UpperLetters) : UpperLetters[k] = s[i]
       THEN LowerLetters[CHOOSE k \in 1..Len(UpperLetters) : UpperLetters[k] = s[i]]
       ELSE s[i]]

ExtMp3 == <<"m", "p", "3">>
ExtWav == <<"w", "a", "v">>
ExtMp4 == <<"m", "p", "4">>

\* line 113: the alternatives of the extension pattern, in its order
AUDIO_EXTENSIONS ==
    << <<"m", "4", "a">>, ExtMp3, <<"a", "a", "c">>, ExtWav, <<"o", "g", "g">>,
       <<"w", "e", "b", "m">>, <<"f", "l", "a", "c">>, ExtMp4,
       <<"m", "p", "e", "g">>, <<"m", "p", "g", "a">>, <<"o", "g", "a">> >>

\* lines 67-71
MIME_MAP ==
    [e \in { AUDIO_EXTENSIONS[k] : k \in 1..Len(AUDIO_EXTENSIONS) } |->
       CASE e = <<"m", "4", "a">> -> "audio/mp4"
         [] e = ExtMp3 -> "audio/mpeg"
         [] e = <<"a", "a", "c">> -> "audio/aac"
         [] e = ExtWav -> "audio/wav"
         [] e = <<"o", "g", "g">> -> "audio/ogg"
         [] e = <<"w", "e", "b", "m">> -> "audio/webm"
         [] e = <<"f", "l", "a", "c">> -> "audio/flac"
         [] e = ExtMp4 -> "audio/mp4"
         [] e = <<"m", "p", "e", "g">> -> "audio/mpeg"
         [] e = <<"m", "p", "g", "a">> -> "audio/mpeg"
         [] e = <<"o", "g", "a">> -> "audio/ogg"]

\* line 113: the extension the lower-cased name ends with, or "mp3"
MatchExtension(originalFileName) ==
    LET lower == toLowerCase(originalFileName)
        hits == { k \in 1..Len(AUDIO_EXTENSIONS) :
                    EndsWith(lower, <<".">> \o AUDIO_EXTENSIONS[k]) }
    IN IF hits = {} THEN ExtMp3
       ELSE AUDIO_EXTENSIONS[CHOOSE k \in hits : TRUE]

AudioDot == <<"a", "u", "d", "i", "o", ".">>

\* Mutant of isAmrFile: any buffer of six bytes or more counts as AMR.
isAmrFile_LengthOnly(buffer) == Len(buffer) >= 6

\* lines 5-7
isAmrFile(buffer) == Len(buffer) >= 6 /\ toAscii(buffer, 0, 6) = AMR_HEADER

\* lines 9-11
isMp4Container(buffer) == Len(buffer) >= 8 /\ toAscii(buffer, 4, 8) = TypeFtyp

\* line 93
is3gp(buffer) == StartsWith(toAscii(buffer, 8, 12), Brand3gp)

\* What AMR.toWAV does with its argument (line 17): WAV bytes, null, or an
\* exception of its own.
CodecOutput(wavData) == [kind |-> "output", wavData |-> wavData]
CodecNoOutput == [kind |-> "null", wavData |-> <<>>]
CodecThrows == [kind |-> "throws", wavData |-> <<>>]

\* the decoded bytes of the model are the text "RIFF"
Codecs == { CodecOutput(<<82, 73, 70, 70>>), CodecNoOutput, CodecThrows }

WavConverted(buffer) == [threw |-> FALSE, error |-> "", buffer |-> buffer]
WavThrew(error) == [threw |-> TRUE, error |-> error, buffer |-> <<>>]

\* Mutant of convertAmrToWav: no output is passed on as an empty buffer.
convertAmrToWav_NullAsEmpty(amrBuffer, codec) ==
    IF codec.kind = "throws" THEN WavThrew("CodecError")
    ELSE WavConverted(codec.wavData)

\* lines 13-22; line 19 throws the error with the message "AMR 디코딩 실패"
convertAmrToWav(amrBuffer, codec) ==
    IF codec.kind = "throws" THEN WavThrew("CodecError")
    ELSE IF codec.kind = "null" THEN WavThrew("AmrDecodeFailed")
    ELSE WavConverted(codec.wavData)

\* What a preparation ends with: the PreparedAudio of lines 73-77 or an
\* error; branch is the branch of lines 84, 91 and 112 that was taken and
\* decoded the bytes handed to the codec, if it was called.
Prepared(branch, buffer, name, type, decoded) ==
    [threw |-> FALSE, error |-> "", branch |-> branch, buffer |-> buffer,
     name |-> name, type |-> type, codecCalled |-> decoded.called,
     decoded |-> decoded.bytes]
PreparationThrew(branch, error, decoded) ==
    [threw |-> TRUE, error |-> error, branch |-> branch, buffer |-> <<>>,
     name |-> <<>>, type |-> "", codecCalled |-> decoded.called,
     decoded |-> decoded.bytes]

CodecGiven(bytes) == [called |-> TRUE, bytes |-> bytes]
CodecNotCalled == [called |-> FALSE, bytes |-> <<>>]

\* lines 105 and 109
Mp4Passthrough(inputBuffer, decoded) ==
    Prepared("container", inputBuffer, AudioDot \o ExtMp4, "audio/mp4", decoded)

\* Mutant of Prepare3gp: nothing is caught.
Prepare3gp_NoCatch(inputBuffer, codec) ==
    LET amr == extract3gpAmrData(inputBuffer) IN
    IF amr.status = "threw"
    THEN PreparationThrew("container", amr.error.name, CodecNotCalled)
    ELSE LET w == convertAmrToWav(amr.data, codec) IN
         IF w.threw
         THEN PreparationThrew("container", w.error, CodecGiven(amr.data))
         ELSE Prepared("container", w.buffer, AudioDot \o ExtWav, "audio/wav",
                       CodecGiven(amr.data))

\* lines 95-106: the 3GP branch, a try with a catch-all
Prepare3gp(inputBuffer, codec) ==
    LET amr == extract3gpAmrData(inputBuffer) IN
    IF amr.status = "threw" THEN Mp4Passthrough(inputBuffer, CodecNotCalled)
    ELSE LET w == convertAmrToWav(amr.data, codec) IN
         IF w.threw THEN Mp4Passthrough(inputBuffer, CodecGiven(amr.data))
         ELSE Prepared("container", w.buffer, AudioDot \o ExtWav, "audio/wav",
                       CodecGiven(amr.data))

\* lines 79-119
prepareAudioForWhisper(inputBuffer, originalFileName, codec) ==
    IF isAmrFile(inputBuffer)
    THEN LET w == convertAmrToWav(inputBuffer, codec) IN
         IF w.threw THEN PreparationThrew("amr", w.error, CodecGiven(inputBuffer))
         ELSE Prepared("amr", w.buffer, AudioDot \o ExtWav, "audio/wav",
                       CodecGiven(inputBuffer))
    ELSE IF isMp4Container(inputBuffer)
    THEN IF is3gp(inputBuffer) THEN Prepare3gp(inputBuffer, codec)
         ELSE Mp4Passthrough(inputBuffer, CodecNotCalled)
    ELSE LET ext == MatchExtension(originalFileName) IN
         Prepared("extension", inputBuffer, AudioDot \o ext,
                  IF ext \in DOMAIN MIME_MAP THEN MIME_MAP[ext] ELSE "audio/mpeg",
                  CodecNotCalled)

\* --- the inputs of a preparation ------------------------------------------
\* the text "RIFF", four zero bytes, the text "WAVE"
RiffBytes == <<82, 73, 70, 70, 0, 0, 0, 0, 87, 65, 86, 69>>

PrepBuffers ==
    { AMR_HEADER \o <<1, 2>>, AMR_HEADER, SubSeq(AMR_HEADER, 1, 5), <<>>, RiffBytes }
    \cup { BufferOf(<<f>> \o l, cut) :
             f \in {Ftyp3gp, FtypIsom},
             l \in LayoutsOver({ MdatSmall, MdatOverrun, FreeEmpty, MoovWithMdat,
                                  ExtHuge, Undersized }, MaxBoxes - 1),
             cut \in 0..MaxCut }

FileNames ==
    { <<"r", ".", "W", "A", "V">>, <<"m", ".", "m", "4", "a">>,
      <<"n", ".", "t", "x", "t">>, <<"w", "a", "v">>,
      <<"a", ".", "o", "g", "a", ".", "3", "g", "p">>, <<>> }

NoPrepared == Prepared("", <<>>, <<>>, "", CodecNotCalled)

PrepStart(buffer, fileName, codec) ==
    [pc |-> "input", inputBuffer |-> buffer, originalFileName |-> fileName,
     codec |-> codec, result |-> NoPrepared]

PrepIdle == [PrepStart(<<>>, <<>>, CodecNoOutput) EXCEPT !.pc = "idle"]

(***************************************************************************)
(* The transcribe route's state machine                                    *)
(***************************************************************************)
NoResponse == [status |-> 0, error |-> "", transcript |-> <<>>,
               summary |-> NoValue, partialFailure |-> NoPartialFailure]

ErrorResponse(status, msg) == [NoResponse EXCEPT !.status = status, !.error = msg]

\* lines 568-577: STATUS_MESSAGES (each message named after its status)
STATUS_MESSAGES ==
    [st \in {400, 401, 404, 413, 429, 500, 502, 503} |->
       CASE st = 400 -> "BadRequestFormat"
         [] st = 401 -> "ApiAuthFailed"
         [] st = 404 -> "ModelNotFound"
         [] st = 413 -> "FileTooLargeUse25MB"
         [] st = 429 -> "QuotaExceededRetryLater"
         [] st = 500 -> "OpenAIServerError"
         [] st = 502 -> "OpenAIUnreachable"
         [] st = 503 -> "OpenAIServiceDown"]

\* lines 673-695: the catch block
CatchResponse(err) ==
    IF err.api
    THEN ErrorResponse(IF err.status = 413 THEN 413 ELSE 502,
                       IF err.status \in DOMAIN STATUS_MESSAGES
                       THEN STATUS_MESSAGES[err.status] ELSE "ProcessingError")
    ELSE ErrorResponse(500,
                       IF err.message = AllModelsExhausted.message
                       THEN err.message ELSE "ProcessingErrorRetryLater")

\* What prepareAudioForWhisper hands to the route (audioProcessing.ts, lines
\* 88, 101, 105, 109, 114-118): name, MIME type, buffer length and, for a WAV,
\* the header fields the chunker reads.
PreparedAudio(name, type, len, ch, rate, bits) ==
    [threw |-> FALSE, name |-> name, type |-> type, len |-> len,
     numChannels |-> ch, sampleRate |-> rate, bitsPerSample |-> bits]
\* ... or it throws (line 19, reached from line 86)
PrepareThrew == [PreparedAudio("", "", 0, 0, 0, 0) EXCEPT !.threw = TRUE]

\* The WAVs over WHISPER_LIMIT are 16-bit mono ones that split into k chunks.
PreparedAudios ==
    { PreparedAudio("audio.wav", "audio/wav", len, 1, 8000, 16) :
        len \in {1000, WHISPER_LIMIT}
               \cup { WAV_HEADER_SIZE + (k - 1) * MaxPcmPerChunk(WHISPER_LIMIT, 2) + 2 :
                        k \in 2..MaxChunks } }
    \cup { PreparedAudio("audio.mp4", "audio/mp4", 1000, 0, 0, 0),
           PreparedAudio("audio.mp3", "audio/mpeg", WHISPER_LIMIT + 1, 0, 0, 0),
           PrepareThrew }

\* The upload: absent, over MAX_SIZE, or accepted with what the audio
\* preparation makes of it.
Uploads ==
    { [present |-> FALSE, size |-> 0, prepared |-> PrepareThrew],
      [present |-> TRUE, size |-> MAX_SIZE + 1, prepared |-> PrepareThrew] }
    \cup { [present |-> TRUE, size |-> Min(a.len, MAX_SIZE), prepared |-> a] :
             a \in PreparedAudios }

\* Answers of the Transcription Service.  The text of chunk i carries i, so
\* that a moved or dropped chunk changes the merged transcript.
ChunkWord(i) == <<"w", ToString(i)>>

ChunkOutcomes(i) ==
    { Fulfilled(ChunkWord(i)),
      Fulfilled(<<" ">> \o ChunkWord(i) \o <<"\r", "\n">>),
      Fulfilled(<<" ", "\n">>),
      RejectedApi(429),
      RejectedOther }

SingleOutcomes ==
    { Fulfilled(<<>>), Fulfilled(<<" ", "\n">>), Fulfilled(<<"\r", "\n">>),
      Fulfilled(<<"h", "i", "\n">>),
      RejectedApi(401), RejectedApi(413), RejectedApi(429), RejectedApi(500),
      RejectedOther }

\* The JSON body of a request to the summarize route, as far as its
\* transcript member goes: no such member, a number, or a string.  A body
\* that is not JSON at all makes request.json() throw.
BodyInvalidJson == [kind |-> "invalidJson", num |-> 0, text |-> <<>>]
BodyMissing == [kind |-> "missing", num |-> 0, text |-> <<>>]
BodyNumber(n) == [kind |-> "number", num |-> n, text |-> <<>>]
BodyString(t) == [kind |-> "string", num |-> 0, text |-> t]

Bodies ==
    { BodyInvalidJson, BodyMissing, BodyNumber(0), BodyNumber(5),
      BodyString(<<>>), BodyString(<<" ", "\n">>), BodyString(<<"\r">>),
      BodyString(<<"U+3000", "\f">>),
      BodyString(<<"h", "i">>), BodyString(<<" ", "h", "i", "\n">>) }

\* Mutant of HasNoText: a string of white space counts as text.
HasNoText_AcceptsBlank(body) ==
    \/ body.kind = "missing"
    \/ body.kind = "number" /\ body.num = 0
    \/ body.kind = "string" /\ body.text = <<>>
    \/ body.kind # "string"

\* summarize/route.ts line 29:
\* !transcript || typeof transcript !== "string" || transcript.trim().length === 0
HasNoText(body) ==
    \/ body.kind = "missing"
    \/ body.kind = "number" /\ body.num = 0
    \/ body.kind = "string" /\ body.text = <<>>
    \/ body.kind # "string"
    \/ Len(Trim(body.text)) = 0

\* summarize/route.ts lines 15-21: STATUS_MESSAGES of the summarize route
SummarizeStatusMessages ==
    [st \in {401, 429, 500, 502, 503} |->
       CASE st = 401 -> "ApiAuthFailed"
         [] st = 429 -> "QuotaExceededRetryLater"
         [] st = 500 -> "OpenAIServerError"
         [] st = 502 -> "OpenAIUnreachable"
         [] st = 503 -> "OpenAIServiceDown"]

\* summarize/route.ts lines 39-54: the catch block of the summarize route
SummarizeCatchResponse(err) ==
    IF err.api
    THEN ErrorResponse(502, IF err.status \in DOMAIN SummarizeStatusMessages
                            THEN SummarizeStatusMessages[err.status]
                            ELSE "SummaryError")
    ELSE ErrorResponse(500, IF err.message = AllModelsExhausted.message
                            THEN err.message ELSE "SummaryErrorRetryLater")

ReqStart(upload) ==
    [pc |-> "start", route |-> "transcribe", body |-> BodyMissing,
     upload |-> upload, chunked |-> FALSE,
     calls |-> <<>>, oracle |-> <<>>, order |-> <<>>,
     transcript |-> <<>>, partialFailure |-> NoPartialFailure,
     response |-> NoResponse]

Respond(r, response) == [r EXCEPT !.pc = "responded", !.response = response]

\* Mutant of IsOversizedWav: a WAV of exactly the ceiling is chunked too.
IsOversizedWav_AtCeiling(audio) == audio.type = "audio/wav" /\ audio.len >= WHISPER_LIMIT

\* line 626: the chunked path is taken
IsOversizedWav(audio) == audio.type = "audio/wav" /\ audio.len > WHISPER_LIMIT

\* Mutant of SettledList: the results are listed in completion order.
SettledList_CompletionOrder(r) ==
    [k \in 1..Len(r.calls) |->
       IF k <= Len(r.order) THEN r.calls[r.order[k]].promise ELSE Pending]

\* lines 630-635: the promises in chunk order, as Promise.allSettled lists them
SettledList(r) == [i \in 1..Len(r.calls) |-> r.calls[i].promise]

\* Mutant of JoinReady: the join fails fast, as Promise.all would.
JoinReady_FailFast(r) ==
    \/ \A i \in 1..Len(r.calls) : r.calls[i].promise.status = "fulfilled"
    \/ \E i \in 1..Len(r.calls) : r.calls[i].promise.status = "rejected"

\* line 630: Promise.allSettled resolves when no promise is pending
JoinReady(r) == \A i \in 1..Len(r.calls) : r.calls[i].promise.status # "pending"

\* A transcribeBuffer call (lines 583-597) that has just been entered: it
\* waits at toFile (line 589) and has not called the service.  at is the
\* await the call stands at, submitted counts its calls of
\* audio.transcriptions.create.
StartCall(name, type, len) ==
    [name |-> name, type |-> type, len |-> len,
     at |-> "toFile", submitted |-> 0, promise |-> Pending]

\* lines 605-618: request.formData() has resolved; the file is checked and
\* file.arrayBuffer() is awaited.
PostBegin ==
    /\ req.pc = "start"
    /\ UNCHANGED <<sum, wav, box, prep>>
    /\ LET u == req.upload IN
       req' = IF ~u.present THEN Respond(req, ErrorResponse(400, "NoFile"))
              ELSE IF u.size > MAX_SIZE
              THEN Respond(req, ErrorResponse(400, "FileOver25MB"))
              ELSE [req EXCEPT !.pc = "awaitBuffer"]

\* lines 618-635 / 657: file.arrayBuffer() has resolved; the audio is
\* prepared, split when it is a WAV over the ceiling, and transcribeBuffer is
\* entered for the buffer or for every chunk.  Each call runs to its await of
\* toFile; the route then waits for the call or for allSettled.
PostDispatch ==
    /\ req.pc = "awaitBuffer"
    /\ UNCHANGED <<sum, wav, box, prep>>
    /\ LET audio == req.upload.prepared IN
       IF audio.threw
       THEN req' = Respond(req, CatchResponse(PlainError("AmrDecodeFailed")))
       ELSE IF IsOversizedWav(audio)
       THEN LET plan == SplitPlan(audio.len, audio.numChannels, audio.sampleRate,
                                  audio.bitsPerSample, WHISPER_LIMIT)
                n == Len(plan.sizes)
            IN IF plan.status = "threw"
               THEN req' = Respond(req, CatchResponse(OtherError))
               ELSE IF plan.status = "diverged"
               THEN req' = [req EXCEPT !.pc = "hung"]
               ELSE \E o \in [1..n -> UNION { ChunkOutcomes(i) : i \in 1..n }] :
                      /\ \A i \in 1..n : o[i] \in ChunkOutcomes(i)
                      /\ req' = [req EXCEPT
                           !.pc = "awaitChunks",
                           !.chunked = TRUE,
                           !.oracle = o,
                           !.calls = [i \in 1..n |->
                                        StartCall(<<"audio_", ToString(i - 1), ".wav">>,
                                                  "audio/wav",
                                                  WAV_HEADER_SIZE + plan.sizes[i])]]
       ELSE \E o \in SingleOutcomes :
              req' = [req EXCEPT
                        !.pc = "awaitSingle",
                        !.oracle = <<o>>,
                        !.calls = <<StartCall(<<audio.name>>, audio.type, audio.len)>>]

\* lines 589-595: toFile has resolved in call i, which calls
\* audio.transcriptions.create with the file and awaits the answer.  The
\* calls of a chunked request get there in any order.
IssueCall(i) ==
    /\ req.pc \in {"awaitChunks", "awaitSingle"}
    /\ i \in 1..Len(req.calls)
    /\ req.calls[i].at = "toFile"
    /\ req' = [req EXCEPT !.calls[i].at = "create",
                          !.calls[i].submitted = @ + 1]
    /\ UNCHANGED <<sum, wav, box, prep>>

\* lines 590-596 and 631-634: the service answers the call of chunk i and the
\* chunk's transcribeBuffer call settles
SettleChunk(i) ==
    /\ req.pc = "awaitChunks"
    /\ i \in 1..Len(req.calls)
    /\ req.calls[i].at = "create"
    /\ req' = [req EXCEPT !.calls[i].at = "settled",
                          !.calls[i].promise = req.oracle[i],
                          !.order = Append(@, i)]
    /\ UNCHANGED <<sum, wav, box, prep>>

\* lines 630-655: allSettled resolves and the results are merged
Merge ==
    /\ req.pc = "awaitChunks"
    /\ JoinReady(req)
    /\ LET m == MergeSettled(SettledList(req)) IN
       req' = IF m.allFailed
              THEN Respond(req, ErrorResponse(502, "TranscriptionFailed"))
              ELSE [req EXCEPT !.pc = "transcribed",
                               !.transcript = m.transcript,
                               !.partialFailure = m.partialFailure]
    /\ UNCHANGED <<sum, wav, box, prep>>

\* lines 590-596 and 657: the service answers the single call and the
\* transcribeBuffer call settles
SettleSingle ==
    /\ req.pc = "awaitSingle"
    /\ req.calls[1].at = "create"
    /\ LET p == req.oracle[1]
           settled == [req EXCEPT !.calls[1].at = "settled", !.calls[1].promise = p]
       IN req' = IF p.status = "rejected"
                 THEN Respond(settled,
                              CatchResponse(IF p.api THEN ApiError(p.code) ELSE OtherError))
                 ELSE [settled EXCEPT !.pc = "transcribed", !.transcript = p.value]
    /\ UNCHANGED <<sum, wav, box, prep>>

\* lines 660-665: the empty-transcript check, then createSummary is entered.
\* The completion order of the chunk calls is not kept past this point.
CheckTranscript ==
    /\ req.pc = "transcribed"
    /\ IF req.transcript = <<>> \/ Len(Trim(req.transcript)) = 0
       THEN /\ req' = Respond([req EXCEPT !.order = <<>>],
                              ErrorResponse(422, "SpeechNotRecognized"))
            /\ sum' = sum
       ELSE /\ req' = [req EXCEPT !.pc = "summarizing", !.order = <<>>]
            /\ sum' = StartSummary
    /\ UNCHANGED <<wav, box, prep>>

\* summarize.ts lines 33-67: the pending model call comes back
SumSettle(o) ==
    /\ sum.pc = "awaiting"
    /\ sum' = HandleOutcome(sum, o)
    /\ UNCHANGED <<req, wav, box, prep>>

\* lines 665-672 and 673-695: createSummary has returned or thrown
PostEnd ==
    /\ req.pc = "summarizing"
    /\ sum.pc \in {"returned", "threw"}
    /\ req' = IF sum.pc = "returned"
              THEN Respond(req, [status |-> 200, error |-> "",
                                 transcript |-> req.transcript,
                                 summary |-> sum.summary,
                                 partialFailure |-> req.partialFailure])
              ELSE Respond(req, CatchResponse(sum.error))
    /\ UNCHANGED <<sum, wav, box, prep>>

ReqIdle == [ReqStart([present |-> FALSE, size |-> 0, prepared |-> PrepareThrew])
              EXCEPT !.pc = "idle"]

\* a request to the summarize route with the given body
SummarizeStart(body) ==
    [ReqIdle EXCEPT !.pc = "summarizeStart", !.route = "summarize", !.body = body]

\* summarize/route.ts lines 25-36: the body is read and checked, then
\* createSummary is entered with its transcript
SummarizeBegin ==
    /\ req.pc = "summarizeStart"
    /\ IF req.body.kind = "invalidJson"
       THEN /\ req' = [req EXCEPT !.pc = "summarizeResponded",
                                  !.response = SummarizeCatchResponse(OtherError)]
            /\ sum' = sum
       ELSE IF HasNoText(req.body)
       THEN /\ req' = [req EXCEPT !.pc = "summarizeResponded",
                                  !.response = ErrorResponse(400, "NoText")]
            /\ sum' = sum
       ELSE /\ req' = [req EXCEPT !.pc = "summarizeCalling",
                                  !.transcript = req.body.text]
            /\ sum' = StartSummary
    /\ UNCHANGED <<wav, box, prep>>

\* summarize/route.ts lines 36-54: createSummary has returned or thrown
SummarizeEnd ==
    /\ req.pc = "summarizeCalling"
    /\ sum.pc \in {"returned", "threw"}
    /\ req' = [req EXCEPT !.pc = "summarizeResponded",
                  !.response = IF sum.pc = "returned"
                               THEN [NoResponse EXCEPT !.status = 200,
                                                       !.summary = sum.summary]
                               ELSE SummarizeCatchResponse(sum.error)]
    /\ UNCHANGED <<sum, wav, box, prep>>

Init ==
    /\ req \in { ReqStart(u) : u \in Uploads } \cup { SummarizeStart(b) : b \in Bodies }
    /\ sum = SumIdle
    /\ wav = WavIdle
    /\ box = BoxIdle
    /\ prep = PrepIdle

Next ==
    \/ PostBegin
    \/ PostDispatch
    \/ \E i \in 1..MaxChunks : IssueCall(i)
    \/ \E i \in 1..MaxChunks : SettleChunk(i)
    \/ Merge
    \/ SettleSingle
    \/ CheckTranscript
    \/ \E o \in SummaryOutcomes : SumSettle(o)
    \/ PostEnd
    \/ SummarizeBegin
    \/ SummarizeEnd

Spec == Init /\ [][Next]_vars

\* line 33: the call is awaited; the service answers every call, with content
\* or with an error, so a pending call is eventually settled.
SpecLive == Spec /\ WF_vars(\E o \in SummaryOutcomes : SumSettle(o))

(***************************************************************************)
(* The chunker specification                                               *)
(***************************************************************************)

InitWav ==
    /\ wav \in { [pc |-> "input", buffer |-> w, maxChunkSize |-> m] :
                   w \in WavInputs, m \in ChunkLimits }
    /\ req = ReqIdle
    /\ sum = SumIdle
    /\ box = BoxIdle
    /\ prep = PrepIdle

\* one call splitWavIntoChunks(buffer, maxChunkSize)
Split ==
    /\ wav.pc = "input"
    /\ LET r == splitWavIntoChunks(wav.buffer, wav.maxChunkSize) IN
       wav' = [wav EXCEPT !.pc = r.status] @@ [split |-> r.split, chunks |-> r.chunks]
    /\ UNCHANGED <<req, sum, box, prep>>

NextWav == Split

SpecWav == InitWav /\ [][NextWav]_vars

(***************************************************************************)
(* The box parser specification                                            *)
(***************************************************************************)
InitBox ==
    /\ box \in BoxInputs
    /\ prep = PrepIdle
    /\ req = ReqIdle
    /\ sum = SumIdle
    /\ wav = WavIdle

\* one call parseTopLevelBoxes(buffer)
ParseBoxes ==
    /\ box.pc = "input"
    /\ box' = [box EXCEPT !.pc = "parsed", !.parsed = parseTopLevelBoxes(box.buffer)]
    /\ UNCHANGED <<prep, req, sum, wav>>

\* one call extract3gpAmrData(buffer)
ExtractAmr ==
    /\ box.pc = "input"
    /\ box' = [box EXCEPT !.pc = "extracted",
                          !.extracted = extract3gpAmrData(box.buffer)]
    /\ UNCHANGED <<prep, req, sum, wav>>

\* parseTopLevelBoxes(buffer) once more, one loop iteration at a time
ScanStep ==
    /\ box.pc \in {"input", "scanning"}
    /\ LET next == ScanOnce(box.buffer, box.scan.offset, box.scan.boxes) IN
       box' = [box EXCEPT !.pc = IF next.status = "scanning" THEN "scanning"
                                 ELSE "scanned",
                          !.scan = next]
    /\ UNCHANGED <<prep, req, sum, wav>>

NextBox == ParseBoxes \/ ExtractAmr \/ ScanStep

SpecBox == InitBox /\ [][NextBox]_vars

\* A started call keeps running: the loop takes its next iteration.
SpecBoxLive == SpecBox /\ WF_vars(ScanStep)

(***************************************************************************)
(* The audio preparation specification                                     *)
(***************************************************************************)
InitPrep ==
    /\ prep \in { PrepStart(b, n, c) : b \in PrepBuffers, n \in FileNames, c \in Codecs }
    /\ box = BoxIdle
    /\ req = ReqIdle
    /\ sum = SumIdle
    /\ wav = WavIdle

\* one call prepareAudioForWhisper(inputBuffer, originalFileName, log)
Prepare ==
    /\ prep.pc = "input"
    /\ prep' = [prep EXCEPT !.pc = "done",
                  !.result = prepareAudioForWhisper(prep.inputBuffer,
                                 prep.originalFileName, prep.codec)]
    /\ UNCHANGED <<box, req, sum, wav>>

NextPrep == Prepare

SpecPrep == InitPrep /\ [][NextPrep]_vars


(***************************************************************************)
(* Properties of the chunker, checked under SpecWav                        *)
(***************************************************************************)
\* the PCM payloads (bytes from offset 44 on) of a chunk list, concatenated
RECURSIVE ConcatPcm(_)
ConcatPcm(chunks) ==
    IF chunks = <<>> THEN <<>> ELSE Head(chunks).pcm \o ConcatPcm(Tail(chunks))

InputBlockAlign == BlockAlignOf(wav.buffer.numChannels, wav.buffer.bitsPerSample)

\* the input's PCM payload is a whole number of sample-frames
InputIsValidWav == Len(wav.buffer.pcm) % InputBlockAlign = 0

\* C1: whenever splitWavIntoChunks returns for a valid WAV buffer, whatever
\* the chunk-size limit, the PCM payloads of the returned chunks,
\* concatenated in returned order, are exactly the input's PCM bytes.
C1_SplitIsLossless ==
    (wav.pc = "returned" /\ InputIsValidWav)
        => ConcatPcm(wav.chunks) = wav.buffer.pcm

\* C1 witness: a valid buffer was cut into at least three chunks.
C1_Witness ==
    /\ wav.pc = "returned"
    /\ wav.split
    /\ InputIsValidWav
    /\ Len(wav.chunks) >= 3
    /\ InputBlockAlign = 2

\* every returned chunk holds whole sample-frames
ChunksAreFrameAligned ==
    \A k \in 1..Len(wav.chunks) : Len(wav.chunks[k].pcm) % InputBlockAlign = 0

\* C2 as stated: for every WAV buffer that is actually split, every returned
\* chunk, the last one included, has a PCM length that is a multiple of
\* blockAlign.
C2_Original_EveryChunkAligned ==
    (wav.pc = "returned" /\ wav.split) => ChunksAreFrameAligned

\* C2 amended: for every WAV buffer that is actually split and whose own PCM
\* length is a multiple of blockAlign, every returned chunk, the last one
\* included, has a PCM length that is a multiple of blockAlign.
C2_ChunksAlignedForValidInput ==
    (wav.pc = "returned" /\ wav.split /\ InputIsValidWav) => ChunksAreFrameAligned

\* C2 witness: a valid buffer with 4-byte frames was split and its last
\* chunk is shorter than its first.
C2_Witness ==
    /\ wav.pc = "returned"
    /\ wav.split
    /\ InputIsValidWav
    /\ InputBlockAlign = 4
    /\ Len(wav.chunks) >= 2
    /\ Len(wav.chunks[Len(wav.chunks)].pcm) < Len(wav.chunks[1].pcm)

(***************************************************************************)
(* Properties of the transcribe route, checked under Spec                  *)
(***************************************************************************)
\* the elements of a finite set of integers, ascending
RECURSIVE SortedSeq(_)
SortedSeq(S) ==
    IF S = {} THEN <<>>
    ELSE LET m == CHOOSE x \in S : \A y \in S : x <= y
         IN <<m>> \o SortedSeq(S \ {m})

ChunkCount == Len(req.calls)

\* the chunk calls that were rejected / fulfilled, by 1-based chunk position
FailedChunkSet    == { i \in 1..ChunkCount : req.calls[i].promise.status = "rejected" }
FulfilledChunkSet == { i \in 1..ChunkCount : req.calls[i].promise.status = "fulfilled" }

AllChunkCallsSettled == FailedChunkSet \cup FulfilledChunkSet = 1..ChunkCount

\* the chunked path has got past the join of the chunk calls
PastJoin == req.chunked /\ req.pc \in {"transcribed", "summarizing", "responded"}

\* a non-empty proper subset of the chunk calls failed
PartialChunkFailure ==
    PastJoin /\ AllChunkCallsSettled /\ FailedChunkSet # {} /\ FulfilledChunkSet # {}

\* the texts of the given chunks in chunk order, each passed through f
TextsOf(S, raw) ==
    LET idx == SortedSeq(S) IN
    [k \in 1..Len(idx) |-> IF raw THEN req.calls[idx[k]].promise.value
                                  ELSE Trim(req.calls[idx[k]].promise.value)]

\* the fulfilled chunks whose text is not blank
SpokenChunkSet == { i \in FulfilledChunkSet : Trim(req.calls[i].promise.value) # <<>> }

IsAllChunksFailed(resp) == resp.status = 502 /\ resp.error = "TranscriptionFailed"

\* C3 as stated: when a non-empty proper subset F of the n chunk calls
\* fails, the request succeeds, its transcript is the transcripts of the
\* chunks not in F joined by one space in chunk order, and partialFailure
\* names exactly the 1-based indices of F and the count n.
C3_Original_PartialFailureSucceeds ==
    (PartialChunkFailure /\ req.pc = "responded")
        => /\ req.response.status = 200
           /\ req.response.transcript = JoinTexts(TextsOf(FulfilledChunkSet, TRUE), <<" ">>)
           /\ req.response.partialFailure =
                  PartialFailureNote(SortedSeq(FailedChunkSet), ChunkCount)

\* C3 amended: when a non-empty proper subset F of the n chunk calls fails
\* and some chunk not in F has a transcript that is not blank, the merge
\* yields the trimmed non-blank transcripts of the chunks not in F joined by
\* one space in chunk order, with a partialFailure naming exactly the 1-based
\* indices of F and the count n; the request succeeds with both when
\* createSummary returns, and otherwise fails with createSummary's error.
C3_PartialFailureMerged ==
    (PartialChunkFailure /\ SpokenChunkSet # {})
        => LET transcript == JoinTexts(TextsOf(SpokenChunkSet, FALSE), <<" ">>)
               note == PartialFailureNote(SortedSeq(FailedChunkSet), ChunkCount)
           IN /\ req.transcript = transcript
              /\ req.partialFailure = note
              /\ req.pc = "responded" =>
                   IF sum.pc = "returned"
                   THEN /\ req.response.status = 200
                        /\ req.response.transcript = transcript
                        /\ req.response.partialFailure = note
                   ELSE /\ sum.pc = "threw"
                        /\ req.response = CatchResponse(sum.error)

\* C3 witness: three chunks, the middle one failed, the request succeeded.
C3_Witness ==
    /\ req.pc = "responded"
    /\ req.response.status = 200
    /\ ChunkCount = 3
    /\ FailedChunkSet = {2}
    /\ SpokenChunkSet = {1, 3}
    /\ req.response.partialFailure.failed = <<2>>

\* C4: on the chunked path the AllChunksFailed error is returned only if no
\* chunk call succeeded: with a fulfilled chunk call it is not returned.
C4_AllChunksFailedOnlyIfNoneSucceeded ==
    (req.chunked /\ req.pc = "responded" /\ FulfilledChunkSet # {})
        => ~IsAllChunksFailed(req.response)

\* C5: partialFailure is present only if the audio was chunked and at least
\* one but not every chunk call failed; never on the single-call path and
\* never when no chunk call failed.
C5_PartialFailureOnlyOnPartialChunkFailure ==
    /\ req.response.partialFailure.present
         => /\ req.chunked
            /\ Cardinality(FailedChunkSet) >= 1
            /\ Cardinality(FailedChunkSet) < ChunkCount
    /\ req.partialFailure.present
         => /\ req.chunked
            /\ Cardinality(FailedChunkSet) >= 1
            /\ Cardinality(FailedChunkSet) < ChunkCount

\* C5 witness: a response that carries a partialFailure.
C5_Witness ==
    /\ req.pc = "responded"
    /\ req.response.status = 200
    /\ req.response.partialFailure.present

\* C6: the merge starts only after every chunk call has settled: past the
\* join no call is pending, and while a call is pending, rejections of other
\* calls notwithstanding, no response is made and the pending call goes
\* on: one that has not reached the service can still be issued, one that
\* is in flight can still settle.
C6_MergeWaitsForAllChunks ==
    /\ PastJoin => AllChunkCallsSettled
    /\ (req.chunked /\ ~AllChunkCallsSettled)
         => /\ req.pc = "awaitChunks"
            /\ req.response = NoResponse
            /\ \A i \in 1..ChunkCount :
                  req.calls[i].promise.status = "pending"
                      => IF req.calls[i].submitted = 0
                         THEN ENABLED IssueCall(i)
                         ELSE ENABLED SettleChunk(i)

\* C6 witness: the first chunk call to settle was rejected, the others
\* settled after it, and the merge then ran.
C6_Witness ==
    /\ req.pc = "transcribed"
    /\ req.chunked
    /\ ChunkCount = 3
    /\ Len(req.order) = 3
    /\ req.calls[req.order[1]].promise.status = "rejected"
    /\ req.calls[req.order[3]].promise.status = "fulfilled"

\* the outcomes the service will give, by chunk position
OracleFailed == { i \in 1..Len(req.oracle) : req.oracle[i].status = "rejected" }
OracleSpoken == { i \in 1..Len(req.oracle) :
                    req.oracle[i].status = "fulfilled" /\ Trim(req.oracle[i].value) # <<>> }

\* C7: the merged transcript and the failed-index list are fixed by the
\* per-chunk outcomes alone, whatever the order in which the calls
\* completed: both follow chunk position.
C7_MergeIgnoresCompletionOrder ==
    (req.chunked /\ req.pc = "transcribed")
        => LET idx == SortedSeq(OracleSpoken) IN
           /\ req.transcript =
                JoinTexts([k \in 1..Len(idx) |-> Trim(req.oracle[idx[k]].value)], <<" ">>)
           /\ req.partialFailure.failed = SortedSeq(OracleFailed)

\* C7 witness: the calls completed in the reverse of chunk order, two
\* chunks had text and one failed.
C7_Witness ==
    /\ req.chunked
    /\ req.pc = "transcribed"
    /\ req.order = <<3, 2, 1>>
    /\ OracleSpoken = {1, 3}
    /\ OracleFailed = {2}

(***************************************************************************)
(* Properties of createSummary, checked under Spec                         *)
(***************************************************************************)
IsModelUnavailable(o) ==
    o.kind = "error" /\ o.error.api /\ o.error.status \in {404, 400}

\* the call failed: an error was raised or the content was empty
IsFailedCall(o) == o.kind = "error" \/ (o.kind = "content" /\ o.text = EmptyText)

SumCalls == Len(sum.calls)

\* C8: a later model is called only after the current model's call failed
\* with an API error of status 404 or 400; any other failure (another
\* status, another error, empty content) is thrown as it is and ends the
\* chain.
C8_FallbackOnlyOn404Or400 ==
    \A k \in 1..SumCalls :
        LET o == sum.calls[k].outcome IN
        /\ k < SumCalls => IsModelUnavailable(o)
        /\ (IsFailedCall(o) /\ ~IsModelUnavailable(o))
             => /\ k = SumCalls
                /\ sum.pc = "threw"
                /\ sum.error = IF o.kind = "error" THEN o.error ELSE EmptyContentError

\* C8 witness: the first model was unavailable (404), the second was
\* rate-limited (429), and the chain stopped there.
C8_Witness ==
    /\ sum.pc = "threw"
    /\ SumCalls = 2
    /\ sum.calls[1].outcome = Failure(ApiError(404))
    /\ sum.calls[2].outcome = Failure(ApiError(429))
    /\ sum.error = ApiError(429)

\* C9: createSummary fails with AllModelsExhausted if and only if every
\* model of the list was called, in order, and rejected with 404 or 400;
\* no Summary is produced then.
C9_ExhaustedIffAllModelsRejected ==
    sum.pc \in {"returned", "threw"}
        => /\ (sum.pc = "threw" /\ sum.error = AllModelsExhausted)
                <=> /\ SumCalls = Len(GPT_MODELS)
                    /\ \A k \in 1..SumCalls :
                          /\ sum.calls[k].model = GPT_MODELS[k]
                          /\ IsModelUnavailable(sum.calls[k].outcome)
           /\ sum.error = AllModelsExhausted => sum.summary = NoValue

\* C9 witness: all three models were rejected, with 404, 400 and 404.
C9_Witness ==
    /\ sum.pc = "threw"
    /\ sum.error = AllModelsExhausted
    /\ SumCalls = 3
    /\ sum.calls[1].outcome = Failure(ApiError(404))
    /\ sum.calls[2].outcome = Failure(ApiError(400))
    /\ sum.calls[3].outcome = Failure(ApiError(404))

SummaryFields ==
    {"briefSummary", "participants", "keyPoints", "agreements",
     "legallySignificant", "cautions"}

\* the content parses into a value of the six-field Summary shape
ParsesAsSixFields(text) ==
    JsonParse(text).ok /\ DOMAIN JsonParse(text).value = SummaryFields

\* C10: when a model returns non-empty content that does not parse as the
\* six-field shape, createSummary returns a Summary whose briefSummary is
\* the raw response text and whose other fields are the degraded ones.
C10_UnparsableContentDegrades ==
    \A k \in 1..SumCalls :
        LET o == sum.calls[k].outcome IN
        (o.kind = "content" /\ o.text # EmptyText /\ ~ParsesAsSixFields(o.text))
            => /\ sum.pc = "returned"
               /\ sum.summary = DegradedSummary(o.text)

\* C11: every value createSummary returns is a Summary with all six text
\* fields present, whatever non-empty content the model answered with,
\* content that is valid JSON of another shape included.
C11_ReturnedValueHasSixFields ==
    sum.pc = "returned" => DOMAIN sum.summary = SummaryFields

\* the call has come back
IsSettledCall(o) == o # PendingCall

\* what the log of model calls looks like at every moment of the chain
SequentialCalls ==
    /\ SumCalls <= Len(GPT_MODELS)
    /\ \A k \in 1..SumCalls :
          /\ sum.calls[k].model = GPT_MODELS[k]
          /\ k < SumCalls => IsModelUnavailable(sum.calls[k].outcome)
          /\ ~IsSettledCall(sum.calls[k].outcome)
                <=> (k = SumCalls /\ sum.pc = "awaiting")
    /\ sum.pc = "awaiting" => sum.model = SumCalls
    /\ sum.pc = "returned"
          => /\ sum.calls[SumCalls].outcome.kind = "content"
             /\ sum.calls[SumCalls].outcome.text # EmptyText

\* a step of the chain ends it or issues the call for the next model
ChainAdvances ==
    (sum.pc = "awaiting" /\ sum' # sum)
        => \/ sum'.pc \in {"returned", "threw"} /\ Len(sum'.calls) = SumCalls
           \/ /\ sum'.pc = "awaiting"
              /\ Len(sum'.calls) = SumCalls + 1
              /\ sum'.calls[SumCalls + 1].model = GPT_MODELS[SumCalls + 1]
              /\ IsModelUnavailable(sum'.calls[SumCalls].outcome)

\* createSummary has returned or thrown
SumDone == sum.pc \in {"returned", "threw"}

\* C12: createSummary calls the models strictly one at a time in list
\* order: the call for model k+1 is issued only after the call for model k
\* came back with a 404/400 failure, nothing is called after a call that
\* returned content, each model is called at most once (at most
\* Len(GPT_MODELS) calls), and a started chain always ends.
C12_CallsOneAtATimeInListOrder ==
    /\ []SequentialCalls
    /\ [][ChainAdvances]_vars
    /\ (sum.pc = "awaiting") ~> SumDone

\* C12 witness: two models were unavailable (404, 400) and the third
\* returned content; three calls were made and the chain has ended.
C12_Witness ==
    /\ sum.pc = "returned"
    /\ SumCalls = 3
    /\ sum.calls[1].outcome = Failure(ApiError(404))
    /\ sum.calls[2].outcome = Failure(ApiError(400))
    /\ sum.calls[3].outcome = Content(SixFieldText)

(***************************************************************************)
(* Properties of prepareAudioForWhisper, checked under SpecPrep            *)
(***************************************************************************)
\* the input's first six bytes are the AMR magic
HasAmrMagic == StartsWith(prep.inputBuffer, AMR_HEADER)

\* bytes 4..7 of the input are "ftyp"
HasFtypHeader ==
    Len(prep.inputBuffer) >= 8 /\ SubSeq(prep.inputBuffer, 5, 8) = TypeFtyp

\* ... and its brand, from byte 8 on, starts with "3gp"
Has3gpBrand ==
    HasFtypHeader /\ Len(prep.inputBuffer) >= 11
        /\ SubSeq(prep.inputBuffer, 9, 11) = Brand3gp

IsMp4Passthrough(result) ==
    /\ ~result.threw
    /\ result.buffer = prep.inputBuffer
    /\ result.name = <<"a", "u", "d", "i", "o", ".", "m", "p", "4">>
    /\ result.type = "audio/mp4"

\* box parsing or the mdat lookup fails on the input
ExtractionFails == extract3gpAmrData(prep.inputBuffer).status = "threw"

\* the codec gives no WAV data: it reports no output or fails itself
DecodingFails == prep.codec.kind # "output"

\* C13: for an ftyp container whose brand starts with "3gp", when box
\* parsing, the mdat lookup or the AMR decoding fails, the preparation does
\* not fail: it returns the input bytes unchanged, named audio.mp4, of type
\* audio/mp4.
C13_Failed3gpFallsBackToMp4 ==
    (prep.pc = "done" /\ Has3gpBrand /\ (ExtractionFails \/ DecodingFails))
        => IsMp4Passthrough(prep.result)

\* C13 witness: a 3GP container with an mdat box was extracted, the codec
\* was called with the extracted AMR data and reported no output, and the
\* input came back as audio.mp4.
C13_Witness ==
    /\ prep.pc = "done"
    /\ Has3gpBrand
    /\ ~ExtractionFails
    /\ prep.codec = CodecNoOutput
    /\ prep.result.codecCalled
    /\ StartsWith(prep.result.decoded, AMR_HEADER)
    /\ IsMp4Passthrough(prep.result)

\* C14: for an input that starts with the AMR magic, when the codec reports
\* no output the preparation fails with the decode error; no PreparedAudio
\* is returned and nothing is fallen back to.
C14_AmrWithoutOutputThrows ==
    (prep.pc = "done" /\ HasAmrMagic /\ prep.codec = CodecNoOutput)
        => /\ prep.result.threw
           /\ prep.result.error = "AmrDecodeFailed"
           /\ prep.result.buffer = <<>>
           /\ prep.result.name = <<>>
           /\ prep.result.type = ""

\* C14 witness: an AMR file with two bytes of frames, the codec was called
\* with it and reported no output.
C14_Witness ==
    /\ prep.pc = "done"
    /\ prep.inputBuffer = AMR_HEADER \o <<1, 2>>
    /\ prep.codec = CodecNoOutput
    /\ prep.result.codecCalled
    /\ prep.result.decoded = prep.inputBuffer
    /\ prep.result.threw

\* the file name ends, case aside, with none of the known extensions
HasUnknownExtension ==
    \A e \in DOMAIN MIME_MAP :
        ~EndsWith(toLowerCase(prep.originalFileName), <<".">> \o e)

AudioMimeTypes ==
    {"audio/mp4", "audio/mpeg", "audio/aac", "audio/wav", "audio/ogg",
     "audio/webm", "audio/flac"}

\* C15: a preparation returns one PreparedAudio with buffer, name and type
\* all defined, or throws; exactly one branch is taken, the codec-native one
\* before the ISO-container one before the extension-based one; and a file
\* name with an unrecognized extension still gets an audio MIME type, the
\* default one.
C15_OneBranchOneResult ==
    prep.pc = "done"
        => LET r == prep.result IN
           /\ r.branch = IF HasAmrMagic THEN "amr"
                         ELSE IF HasFtypHeader THEN "container"
                         ELSE "extension"
           /\ ~r.threw => /\ r.name # <<>>
                          /\ StartsWith(r.name, <<"a", "u", "d", "i", "o", ".">>)
                          /\ r.type \in AudioMimeTypes
           /\ r.threw => r.branch = "amr" /\ r.buffer = <<>>
           /\ r.branch = "extension"
                => /\ ~r.threw
                   /\ r.buffer = prep.inputBuffer
                   /\ ~r.codecCalled
                   /\ HasUnknownExtension
                        => /\ r.type = "audio/mpeg"
                           /\ r.name = <<"a", "u", "d", "i", "o", ".", "m", "p", "3">>

\* C15 witness: a RIFF buffer named n.txt went through the extension branch
\* and came back as audio.mp3 of type audio/mpeg.
C15_Witness ==
    /\ prep.pc = "done"
    /\ prep.inputBuffer = RiffBytes
    /\ prep.originalFileName = <<"n", ".", "t", "x", "t">>
    /\ prep.result.branch = "extension"
    /\ prep.result.type = "audio/mpeg"

(***************************************************************************)
(* Properties of the box parser, checked under SpecBox                     *)
(*                                                                         *)
(* box.layout says how the buffer was laid out; none of the definitions    *)
(* below runs the parser to find out where a box starts.                   *)
(***************************************************************************)
BoxCount == Len(box.layout)

\* bytes of stretch k in the uncut buffer
StretchLen(k) == Len(Encode(box.layout[k]))

\* offset of stretch k in the buffer
RECURSIVE StretchStart(_)
StretchStart(k) == IF k = 1 THEN 0 ELSE StretchStart(k - 1) + StretchLen(k - 1)

HeaderLen(k) == IF box.layout[k].extended THEN 16 ELSE 8

\* bytes of the buffer from the start of stretch k on
BytesFrom(k) == Len(box.buffer) - StretchStart(k)

\* the total size box k declares: its size field, its extended size, or for
\* size field 0 everything up to the end of the buffer
DeclaredSize(k) ==
    LET seg == box.layout[k] IN
    IF seg.sizeField = 0 THEN BytesFrom(k)
    ELSE IF seg.extended THEN seg.loWord
    ELSE seg.sizeField

\* box k is a whole box: its declared size covers its header and is the
\* number of bytes it takes in the buffer
IsWholeBox(k) ==
    /\ box.layout[k].hiWord = 0
    /\ DeclaredSize(k) >= HeaderLen(k)
    /\ StretchStart(k) + DeclaredSize(k) <= Len(box.buffer)
    /\ box.layout[k].sizeField # 0 => DeclaredSize(k) = StretchLen(k)

\* the buffer is a run of whole boxes and nothing else
IsWellFormed ==
    /\ box.cut = 0
    /\ BoxCount >= 1
    /\ \A k \in 1..BoxCount : IsWholeBox(k)
    /\ \A k \in 1..(BoxCount - 1) : box.layout[k].sizeField # 0

TopLevelMdats == { k \in 1..BoxCount : box.layout[k].type = TypeMdat }

\* the scan gets to box k: the boxes before it are whole, none of them runs
\* to the end of the buffer, and the 8 bytes of size field and type are there
IsReached(k) ==
    /\ \A j \in 1..(k - 1) : IsWholeBox(j) /\ box.layout[j].sizeField # 0
    /\ BytesFrom(k) >= 8

\* C16: for a well-formed container with exactly one top-level mdat box,
\* parseTopLevelBoxes returns exactly one box of that type, and its
\* payloadSize is the box's declared total size less its header size (8, or
\* 16 with an extended size).
C16_SingleMdatBoxIsListedOnce ==
    (box.pc = "parsed" /\ IsWellFormed /\ Cardinality(TopLevelMdats) = 1)
        => LET k == CHOOSE k \in TopLevelMdats : TRUE
               boxes == box.parsed.boxes
           IN /\ box.parsed.status = "returned"
              /\ Len(boxes) = BoxCount
              /\ { i \in 1..Len(boxes) : boxes[i].type = TypeMdat } = {k}
              /\ boxes[k].start = StretchStart(k)
              /\ boxes[k].headerSize = HeaderLen(k)
              /\ boxes[k].payloadSize = DeclaredSize(k) - HeaderLen(k)

\* C16 witness: ftyp, a moov box with a nested mdat, then the one top-level
\* mdat box, with an extended size, was parsed.
C16_Witness ==
    /\ box.pc = "parsed"
    /\ box.layout = <<Ftyp3gp, MoovWithMdat, MdatExtended>>
    /\ box.cut = 0
    /\ box.parsed.status = "returned"
    /\ box.parsed.boxes[3].payloadSize = 2

\* box k declares a total size below its header size
IsUndersized(k) ==
    LET seg == box.layout[k] IN
    \/ ~seg.extended /\ seg.sizeField \in 2..7
    \/ seg.extended /\ BytesFrom(k) >= 16 /\ seg.hiWord = 0 /\ seg.loWord < 16

\* C17: whenever the scan reaches a box whose total size is below its header
\* size (size field 2..7, or an extended size below 16), parseTopLevelBoxes
\* fails with MalformedBox and returns no box list.
C17_UndersizedBoxIsMalformed ==
    box.pc = "parsed"
        => \A k \in 1..BoxCount :
              (IsReached(k) /\ IsUndersized(k))
                 => box.parsed = BoxesThrew(MalformedBox(StretchStart(k)))

\* C17 witness: after a whole mdat box the scan met a box with an extended
\* size of 8 and failed there.
C17_Witness ==
    /\ box.pc = "parsed"
    /\ box.layout = <<MdatSmall, ExtUndersized>>
    /\ box.cut = 0
    /\ IsReached(2) /\ IsUndersized(2)
    /\ box.parsed.status = "threw"
    /\ box.parsed.error = MalformedBox(10)

\* C18: whenever the scan reaches a box with size field 1 whose extended
\* size (the 8 bytes after the type) has a non-zero high word,
\* parseTopLevelBoxes fails with UnsupportedSize; the size is not cut down
\* to its low word.
C18_SizeOver4GBIsUnsupported ==
    box.pc = "parsed"
        => \A k \in 1..BoxCount :
              (/\ IsReached(k)
               /\ box.layout[k].sizeField = 1
               /\ BytesFrom(k) >= 16
               /\ box.layout[k].hiWord # 0)
                 => box.parsed = BoxesThrew(UnsupportedSize(StretchStart(k)))

\* C18 witness: after ftyp the scan met a box with extended size 2^32 + 16.
C18_Witness ==
    /\ box.pc = "parsed"
    /\ box.layout = <<Ftyp3gp, ExtHuge>>
    /\ box.cut = 0
    /\ box.parsed.status = "threw"
    /\ box.parsed.error = UnsupportedSize(12)

\* the scan reaches box k, which has size field 1, with fewer than 16 bytes
\* left in the buffer
IsTruncatedExtended(k) ==
    /\ IsReached(k)
    /\ box.layout[k].sizeField = 1
    /\ BytesFrom(k) < 16

\* C19 as stated: parseTopLevelBoxes fails with UnsupportedSize when it
\* reaches a box with size field 1 and fewer than 16 bytes remain from the
\* box's start to the end of the buffer.
C19_Original_TruncatedExtendedThrows ==
    box.pc = "parsed"
        => \A k \in 1..BoxCount :
              IsTruncatedExtended(k)
                 => /\ box.parsed.status = "threw"
                    /\ box.parsed.error.name = "UnsupportedSize"

\* C19: when the scan reaches a box with size field 1 and fewer than 16
\* bytes remain from the box's start to the end of the buffer,
\* parseTopLevelBoxes stops there without an error and returns the boxes
\* before it; the truncated box is not listed.
C19_TruncatedExtendedEndsScan ==
    box.pc = "parsed"
        => \A k \in 1..BoxCount :
              IsTruncatedExtended(k)
                 => /\ box.parsed.status = "returned"
                    /\ Len(box.parsed.boxes) = k - 1
                    /\ \A j \in 1..(k - 1) :
                          /\ box.parsed.boxes[j].start = StretchStart(j)
                          /\ box.parsed.boxes[j].type = box.layout[j].type

\* C19 witness: a whole mdat box, then an extended-size box of which only
\* 15 bytes are in the buffer; one box was returned.
C19_Witness ==
    /\ box.pc = "parsed"
    /\ box.layout = <<MdatSmall, MdatExtended>>
    /\ box.cut = 3
    /\ IsTruncatedExtended(2)
    /\ box.parsed.status = "returned"
    /\ Len(box.parsed.boxes) = 1

\* the first top-level mdat box parseTopLevelBoxes lists for the buffer
FirstMdatBox ==
    LET boxes == parseTopLevelBoxes(box.buffer).boxes
    IN boxes[FindMdat(boxes)]

MdatPayloadStart == FirstMdatBox.start + FirstMdatBox.headerSize

\* parsing succeeded and a top-level mdat box was found
HasParsedMdat ==
    /\ parseTopLevelBoxes(box.buffer).status = "returned"
    /\ FindMdat(parseTopLevelBoxes(box.buffer).boxes) # 0

\* data is the AMR magic followed by the n bytes of the buffer from the mdat
\* payload's start on
IsMagicThenPayload(data, n) ==
    /\ Len(data) = 6 + n
    /\ SubSeq(data, 1, 6) = <<35, 33, 65, 77, 82, 10>>
    /\ MdatPayloadStart + n <= Len(box.buffer)
    /\ \A i \in 1..n : data[6 + i] = box.buffer[MdatPayloadStart + i]

\* C20 as stated: when parsing succeeds and a top-level mdat box exists,
\* extract3gpAmrData returns the AMR magic followed by exactly payloadSize
\* bytes from start + headerSize on, so the output is 6 + payloadSize long,
\* also when the mdat box declares a size that reaches past the buffer's end.
C20_Original_OutputIsMagicPlusPayloadSize ==
    (box.pc = "extracted" /\ HasParsedMdat)
        => /\ box.extracted.status = "returned"
           /\ IsMagicThenPayload(box.extracted.data, FirstMdatBox.payloadSize)

\* bytes of the buffer from the mdat payload's start to the buffer's end
MdatBytesPresent == Len(box.buffer) - MdatPayloadStart

\* C20: when parsing succeeds and a top-level mdat box exists,
\* extract3gpAmrData returns the AMR magic followed by the bytes of the
\* first such box's payload that are in the buffer: from start + headerSize
\* up to start + headerSize + payloadSize or the end of the buffer,
\* whichever comes first.  The output is 6 + min(payloadSize, buffer length
\* - (start + headerSize)) long: 6 + payloadSize only when the declared
\* size stays within the buffer.
C20_OutputIsMagicPlusPresentPayload ==
    (box.pc = "extracted" /\ HasParsedMdat)
        => /\ box.extracted.status = "returned"
           /\ IsMagicThenPayload(box.extracted.data,
                  Min(FirstMdatBox.payloadSize, MdatBytesPresent))

\* C20 witness: after ftyp, an mdat box declaring 20 bytes of which 10 are
\* in the buffer; the magic and the 2 payload bytes present were returned.
C20_Witness ==
    /\ box.pc = "extracted"
    /\ box.layout = <<Ftyp3gp, MdatOverrun>>
    /\ box.cut = 0
    /\ FirstMdatBox.payloadSize = 12
    /\ MdatBytesPresent = 2
    /\ box.extracted.data = <<35, 33, 65, 77, 82, 10, 8, 9>>

\* C21: extract3gpAmrData fails with BoxNotFound exactly when the top-level
\* parse ends without an error and none of the boxes it returns is tagged
\* mdat; an mdat tag that only occurs inside another box's payload is not
\* taken.
C21_BoxNotFoundIffNoTopLevelMdat ==
    box.pc = "extracted"
        => LET parsed == parseTopLevelBoxes(box.buffer) IN
           /\ box.extracted = AmrThrew(BoxNotFound)
                <=> /\ parsed.status = "returned"
                    /\ \A i \in 1..Len(parsed.boxes) : parsed.boxes[i].type # TypeMdat
           /\ (IsWellFormed /\ TopLevelMdats = {})
                => box.extracted = AmrThrew(BoxNotFound)

\* C21 witness: ftyp and a moov box with an mdat box nested in it, no
\* top-level mdat; the extraction failed with BoxNotFound.
C21_Witness ==
    /\ box.pc = "extracted"
    /\ box.layout = <<Ftyp3gp, MoovWithMdat>>
    /\ box.cut = 0
    /\ box.extracted.status = "threw"
    /\ box.extracted.error = BoxNotFound

\* the offset just past box b
BoxEnd(b) == b.start + b.headerSize + b.payloadSize

\* C22: in every box list parseTopLevelBoxes returns, the first box starts
\* at offset 0, each later box starts where the one before it ends, no two
\* boxes overlap, every payloadSize is at least 0, and a box with size field
\* 0 runs to the end of the buffer and is the last box.
C22_BoxListIsContiguous ==
    (box.pc = "parsed" /\ box.parsed.status = "returned")
        => LET boxes == box.parsed.boxes
               n == Len(boxes)
           IN /\ n >= 1 => boxes[1].start = 0
              /\ \A i \in 1..(n - 1) : boxes[i + 1].start = BoxEnd(boxes[i])
              /\ \A i \in 1..n : \A j \in (i + 1)..n : BoxEnd(boxes[i]) <= boxes[j].start
              /\ \A i \in 1..n : boxes[i].payloadSize >= 0
              /\ \A i \in 1..n :
                    readUInt32BE(box.buffer, boxes[i].start) = 0
                       => i = n /\ BoxEnd(boxes[i]) = Len(box.buffer)

\* C22 witness: ftyp, an empty free box, then an mdat box with size field 0
\* and the 3 bytes up to the end of the buffer as its payload.
C22_Witness ==
    /\ box.pc = "parsed"
    /\ box.layout = <<Ftyp3gp, FreeEmpty, MdatToEnd>>
    /\ box.cut = 0
    /\ box.parsed.status = "returned"
    /\ Len(box.parsed.boxes) = 3
    /\ box.parsed.boxes[3].start = 20
    /\ box.parsed.boxes[3].payloadSize = 3

(***************************************************************************)
(* Further properties of the transcribe route, checked under Spec          *)
(***************************************************************************)
\* every character of the text is white space (the text may be empty)
IsBlank(t) == \A i \in 1..Len(t) : IsSpace(t[i])

\* every transcription call of the request was fulfilled, each with a blank
\* text: the text resulting from transcription is blank
TranscribedBlank ==
    /\ ChunkCount >= 1
    /\ \A i \in 1..ChunkCount :
          /\ req.calls[i].promise.status = "fulfilled"
          /\ IsBlank(req.calls[i].promise.value)

IsEmptyTranscript(resp) == resp.status = 422 /\ resp.error = "SpeechNotRecognized"

\* C23: whenever the text resulting from transcription is empty or only
\* white space, the request fails with EmptyTranscript (422); this also
\* holds on the chunked path when the chunk calls are all fulfilled with
\* empty text.
C23_BlankTranscriptIsEmptyTranscript ==
    (req.pc = "responded" /\ TranscribedBlank)
        => IsEmptyTranscript(req.response)

\* the prepared audio of the request
Audio == req.upload.prepared

\* the request got as far as transcription: a file of an accepted size was
\* uploaded and its preparation did not throw
ReachesTranscription ==
    req.upload.present /\ req.upload.size <= 25 * 1024 * 1024 /\ ~Audio.threw

\* the audio is a WAV longer than the 20 MiB ceiling
AudioIsOversizedWav == Audio.type = "audio/wav" /\ Audio.len > 20 * 1024 * 1024

\* the PCM bytes a chunk holds at most, and the number of chunks the audio's
\* PCM payload takes at that stride
ChunkStride ==
    LET blockAlign == Audio.numChannels * (Audio.bitsPerSample \div 8)
    IN ((20 * 1024 * 1024 - 44) \div blockAlign) * blockAlign
ChunksNeeded == (Audio.len - 44 + ChunkStride - 1) \div ChunkStride

\* the calls of the request, once it is past the dispatch: one call with
\* the prepared audio, or one call per chunk, call i with chunk i
CallsAsDispatched ==
    IF AudioIsOversizedWav
    THEN /\ ChunkCount = ChunksNeeded
         /\ \A i \in 1..ChunkCount :
               /\ req.calls[i].name = <<"audio_", ToString(i - 1), ".wav">>
               /\ req.calls[i].type = "audio/wav"
               /\ req.calls[i].len = 44 + Min(ChunkStride,
                                              Audio.len - 44 - (i - 1) * ChunkStride)
    ELSE /\ ChunkCount = 1
         /\ req.calls[1].name = <<Audio.name>>
         /\ req.calls[1].type = Audio.type
         /\ req.calls[1].len = Audio.len

CallsDispatched ==
    req.pc \in {"awaitChunks", "awaitSingle", "transcribed", "summarizing"}
        \/ (req.pc = "responded" /\ ChunkCount >= 1)

\* the submission part of a call
Submitted(call) == [name |-> call.name, type |-> call.type, len |-> call.len]

\* the number of times the service was called with buffer or chunk i
ServiceCalls(i) == req.calls[i].submitted

\* the transcription of the request is over: its call, or the join of its
\* chunk calls, has come back
TranscriptionOver ==
    req.pc \in {"transcribed", "summarizing"} \/ (req.pc = "responded" /\ ChunkCount >= 1)

\* no buffer or chunk is with the service more than once, an answered call
\* was made once, and when the transcription is over every call was made
CalledOnceEach ==
    /\ \A i \in 1..ChunkCount :
          /\ ServiceCalls(i) <= 1
          /\ req.calls[i].promise # Pending => ServiceCalls(i) = 1
    /\ TranscriptionOver => \A i \in 1..ChunkCount : ServiceCalls(i) = 1

\* once dispatched, no call is added and no call is made again: the list of
\* submissions stays as it is, a call that was made is not made again and a
\* settled call stays settled as it is
NoResubmission ==
    ChunkCount >= 1
        => /\ Len(req'.calls) = ChunkCount
           /\ \A i \in 1..ChunkCount :
                 /\ Submitted(req'.calls[i]) = Submitted(req.calls[i])
                 /\ ServiceCalls(i) = 1 => req'.calls[i].submitted = 1
                 /\ req.calls[i].promise # Pending
                      => req'.calls[i].promise = req.calls[i].promise

\* C24: per request the Transcription Service is called exactly once when
\* the prepared audio is not an over-ceiling WAV, and exactly once per chunk
\* otherwise; no buffer or chunk is submitted a second time, whatever its
\* call's outcome.
C24_OneCallPerBufferOrChunk ==
    /\ [](ChunkCount >= 1 => ReachesTranscription /\ CallsAsDispatched)
    /\ [](CallsDispatched => ChunkCount >= 1)
    /\ []CalledOnceEach
    /\ [][NoResubmission]_vars

\* C24 witness: a WAV of three chunks; the second chunk's call was rejected,
\* the request has been answered, and there are still exactly three calls.
C24_Witness ==
    /\ req.pc = "responded"
    /\ AudioIsOversizedWav
    /\ ChunkCount = 3
    /\ FailedChunkSet = {2}
    /\ FulfilledChunkSet = {1, 3}
    /\ \A i \in 1..3 : ServiceCalls(i) = 1

\* the statuses of the Transcription Service the route has a message for
ForwardedStatuses == {401, 413, 429, 500, 502, 503}

\* the request failed because the Transcription Service answered with
\* status st: every transcription call of the request was rejected with it
FailedWithServiceStatus(st) ==
    /\ req.pc = "responded"
    /\ ChunkCount >= 1
    /\ \A i \in 1..ChunkCount : req.calls[i].promise = RejectedApi(st)

\* C25: whenever a request fails because the Transcription Service returned
\* a failure with a status of {401, 413, 429, 500, 502, 503}, the error
\* given to the caller is the message of that status, a different one for
\* each status, on the single-call path and on the chunked path alike.
C25_ServiceStatusHasItsOwnMessage ==
    /\ \A st \in ForwardedStatuses : \A other \in ForwardedStatuses \ {st} :
          STATUS_MESSAGES[st] # STATUS_MESSAGES[other]
    /\ \A st \in ForwardedStatuses :
          FailedWithServiceStatus(st) => req.response.error = STATUS_MESSAGES[st]

(***************************************************************************)
(* Further properties of the chunker, checked under SpecWav                *)
(***************************************************************************)
\* C26: every chunk a split produces is a WAV of its own: it is 44 bytes
\* plus its PCM bytes long, its RIFF size field is its PCM length + 36, its
\* data size field is its PCM length, and its channel count, sample rate and
\* bits per sample are those of the input header.
C26_ChunkHeaderDescribesChunk ==
    (wav.pc = "returned" /\ wav.split)
        => \A k \in 1..Len(wav.chunks) :
              LET c == wav.chunks[k] IN
              /\ BufLen(c) = 44 + Len(c.pcm)
              /\ c.riffSize = Len(c.pcm) + 36
              /\ c.dataSize = Len(c.pcm)
              /\ c.numChannels = wav.buffer.numChannels
              /\ c.sampleRate = wav.buffer.sampleRate
              /\ c.bitsPerSample = wav.buffer.bitsPerSample

\* C26 witness: a stereo 16-bit buffer was split and its last chunk, shorter
\* than the first, says so in its data size field.
C26_Witness ==
    /\ wav.pc = "returned"
    /\ wav.split
    /\ wav.buffer.numChannels = 2
    /\ wav.buffer.bitsPerSample = 16
    /\ Len(wav.chunks) >= 2
    /\ wav.chunks[Len(wav.chunks)].dataSize < wav.chunks[1].dataSize
    /\ wav.chunks[1].dataSize < wav.buffer.dataSize

\* the largest multiple of the input's blockAlign that, with a 44-byte
\* header, fits the limit
FullChunkPcm ==
    CHOOSE m \in 0..wav.maxChunkSize :
        /\ m % InputBlockAlign = 0
        /\ 44 + m <= wav.maxChunkSize
        /\ 44 + m + InputBlockAlign > wav.maxChunkSize

\* C27: every chunk splitWavIntoChunks returns is, header and PCM together,
\* at most maxChunkSize bytes long, and every chunk but the last carries
\* exactly floor((maxChunkSize - 44) / blockAlign) * blockAlign PCM bytes.
C27_ChunksFitTheLimit ==
    wav.pc = "returned"
        => /\ \A k \in 1..Len(wav.chunks) : BufLen(wav.chunks[k]) <= wav.maxChunkSize
           /\ \A k \in 1..(Len(wav.chunks) - 1) :
                 Len(wav.chunks[k].pcm) = FullChunkPcm

\* C27 witness: three chunks under a limit that leaves room for more than
\* one sample-frame but not for a whole number of them.
C27_Witness ==
    /\ wav.pc = "returned"
    /\ wav.split
    /\ Len(wav.chunks) = 3
    /\ InputBlockAlign = 2
    /\ wav.maxChunkSize = 44 + 5
    /\ Len(wav.chunks[1].pcm) = 4
    /\ BufLen(wav.chunks[3]) < wav.maxChunkSize

\* C28: splitWavIntoChunks ends with a finite chunk list for every WAV
\* buffer and every maxChunkSize, limits below 44 + blockAlign included:
\* the call neither runs for ever nor fails.
C28_SplitAlwaysReturns ==
    wav.pc # "input" => wav.pc = "returned"

(***************************************************************************)
(* Termination of the box parser, checked under SpecBoxLive                *)
(***************************************************************************)
\* an iteration of the scan either ends it or moves the offset on by at
\* least 8 bytes, pushing one box
ScanExitsOrAdvances ==
    (box.pc \in {"input", "scanning"} /\ box'.pc \in {"scanning", "scanned"})
        => \/ box'.pc = "scanned"
           \/ /\ box'.scan.offset >= box.scan.offset + 8
              /\ Len(box'.scan.boxes) = Len(box.scan.boxes) + 1

\* what the finished scan has is what parseTopLevelBoxes gives
ScanIsTheParse ==
    box.pc = "scanned"
        => /\ box.scan.status = parseTopLevelBoxes(box.buffer).status
           /\ box.scan.error = parseTopLevelBoxes(box.buffer).error
           /\ box.scan.boxes = parseTopLevelBoxes(box.buffer).boxes

\* C29: parseTopLevelBoxes ends on every finite buffer, with a list or an
\* error: each loop iteration leaves the loop or moves the scan offset on by
\* at least 8 bytes, so at most floor(length / 8) boxes are produced.
C29_ScanTerminates ==
    /\ [][ScanExitsOrAdvances]_vars
    /\ [](Len(box.scan.boxes) <= Len(box.buffer) \div 8)
    /\ []ScanIsTheParse
    /\ (box.pc = "scanning") ~> (box.pc = "scanned")

\* C29 witness: a 24-byte buffer of three empty boxes was scanned in three
\* iterations and a last loop test; floor(24 / 8) boxes were produced.
C29_Witness ==
    /\ box.pc = "scanned"
    /\ box.layout = <<FreeEmpty, FreeEmpty, FreeEmpty>>
    /\ box.cut = 0
    /\ box.scan.status = "returned"
    /\ box.scan.offset = 24
    /\ Len(box.scan.boxes) = 3

(***************************************************************************)
(* Summarization after transcription, checked under Spec                   *)
(***************************************************************************)
\* the Summarization Service has been called in this request
SummarizationCalled == SumCalls >= 1

\* no transcription call of the request is pending any more
TranscriptionFinished ==
    ChunkCount >= 1 /\ \A i \in 1..ChunkCount : req.calls[i].promise # Pending

\* some transcription call was fulfilled with a text that is not blank
SomeTextSpoken ==
    \E i \in 1..ChunkCount :
        /\ req.calls[i].promise.status = "fulfilled"
        /\ ~IsBlank(req.calls[i].promise.value)

\* the request was answered without a transcript to summarize: validation
\* failed, the preparation threw, every chunk failed, or the transcript was
\* empty
AnsweredWithoutTranscript ==
    \/ req.pc = "responded"
         /\ \/ ~ReachesTranscription
            \/ req.response.status \in {400, 422}
            \/ IsAllChunksFailed(req.response)
            \/ ~SomeTextSpoken
    \/ req.pc = "summarizeResponded"
         /\ \/ req.body.kind # "string"
            \/ IsBlank(req.body.text)

\* C30: the Summarization Service is called only after transcription has
\* finished with a transcript that is not empty after trimming: it is not
\* called when validation fails, when the audio preparation throws, when
\* all chunks fail or when the transcript is empty; and the summarize route
\* calls it for no missing, non-string or blank transcript.
C30_SummaryOnlyAfterTranscript ==
    /\ SummarizationCalled
         => IF req.route = "transcribe"
            THEN /\ req.pc \in {"summarizing", "responded"}
                 /\ ReachesTranscription
                 /\ TranscriptionFinished
                 /\ SomeTextSpoken
                 /\ req.transcript # <<>> /\ ~IsBlank(req.transcript)
            ELSE /\ req.pc \in {"summarizeCalling", "summarizeResponded"}
                 /\ req.body.kind = "string"
                 /\ req.body.text # <<>> /\ ~IsBlank(req.body.text)
                 /\ req.transcript = req.body.text
    /\ AnsweredWithoutTranscript => ~SummarizationCalled

\* C30 witness: two of three chunks gave text, the transcript was merged and
\* the first model has been called with it.
C30_Witness ==
    /\ req.route = "transcribe"
    /\ req.pc = "summarizing"
    /\ ChunkCount = 3
    /\ TranscriptionFinished
    /\ FailedChunkSet = {2}
    /\ SumCalls = 1
    /\ sum.pc = "awaiting"

====
